---- MODULE Spec2Model ----
(***************************************************************************)
(* Model of the mpu6886 driver (src/src/lib.rs, device.rs, config.rs).     *)
(*                                                                         *)
(* The driver is a single-threaded object: every public method is a        *)
(* blocking call that issues bus transactions one after the other and      *)
(* returns at the first error.  One action of the model is one call of a   *)
(* public method, executed to completion; the bus transactions of the call *)
(* are recorded in `bus`, its result in `ret`.  A call is given a failure  *)
(* plan `fail`: the number of the bus transaction that the bus answers     *)
(* with an error (0: none).                                                *)
(*                                                                         *)
(* The device behind the bus is its registers `regs`; `por` says whether   *)
(* it obeys the DEVICE_RESET bit by going back to its power-on contents.   *)
(*                                                                         *)
(* f32 sensitivities are kept as integers in tenths (131.0 -> 1310).       *)
(***************************************************************************)
EXTENDS Integers, Sequences, FiniteSets, TLC

VARIABLES regs, por, slave_addr, acc_sensitivity, gyro_sensitivity,
          call, ret, bus, prev, nops, conv

vars == <<regs, por, slave_addr, acc_sensitivity, gyro_sensitivity,
          call, ret, bus, prev, nops, conv>>

\* Number of public calls a behaviour makes after construction.
MaxOps == 2

Byte == 0..255

----------------------------------------------------------------------------
(* device.rs: register addresses and bit positions                          *)

DEFAULT_SLAVE_ADDR == 104
WHOAMI == 117
CONFIG_ADDR == 26
GYRO_CONFIG_ADDR == 27
ACCEL_CONFIG_ADDR == 28
MOT_THR == 31
MOT_DUR == 32
INT_PIN_CFG_ADDR == 55
INT_ENABLE_ADDR == 56
INT_STATUS_ADDR == 58
ACC_REGX_H == 59
TEMP_OUT_H == 65
GYRO_REGX_H == 67
PWR_MGMT_1_ADDR == 107

\* Addresses lib.rs uses whose definitions are not among the sources at hand.
ACCEL_CONFIG_2_ADDR == 29
FIFO_EN == 35
USER_CTRL == 106
FIFO_R_W == 116

GYRO_CONFIG_FS_SEL == [bit |-> 4, length |-> 2]
ACCEL_CONFIG_FS_SEL == [bit |-> 4, length |-> 2]
PWR_MGMT_1_CLKSEL == [bit |-> 2, length |-> 3]
PWR_MGMT_1_DEVICE_RESET == 7
PWR_MGMT_1_SLEEP == 6
PWR_MGMT_1_TEMP_DIS == 3
ACCEL_CONFIG_XA_ST == 7
ACCEL_CONFIG_YA_ST == 6
ACCEL_CONFIG_ZA_ST == 5
INT_ENABLE_WOM_X_INT_EN == 7
INT_ENABLE_WOM_Y_INT_EN == 6
INT_ENABLE_WOM_Z_INT_EN == 5

INT_STATUS_WOM_X_INT == 7
INT_STATUS_WOM_Y_INT == 6
INT_STATUS_WOM_Z_INT == 5

\* f32 sensitivities in tenths: (16384., 8192., 4096., 2048.) and (131., 65.5, 32.8, 16.4)
ACCEL_SENS == <<163840, 81920, 40960, 20480>>
GYRO_SENS == <<1310, 655, 328, 164>>

\* TEMP_SENSITIVITY in tenths (326.8), TEMP_OFFSET in degrees (25.0)
TEMP_SENSITIVITY == 3268
TEMP_OFFSET == 25

----------------------------------------------------------------------------
(* u8 arithmetic                                                            *)

RECURSIVE Pow2(_)
Pow2(n) == IF n = 0 THEN 1 ELSE 2 * Pow2(n - 1)

\* a | b on u8
RECURSIVE BitOr(_, _)
BitOr(a, b) ==
    IF a = 0 THEN b
    ELSE IF b = 0 THEN a
    ELSE (IF (a % 2 = 1) \/ (b % 2 = 1) THEN 1 ELSE 0) + 2 * BitOr(a \div 2, b \div 2)

----------------------------------------------------------------------------
(* bits.rs (not part of the sources at hand): single-byte bit helpers.     *)
(* A field is named by its highest bit `bit_start` and its `length`, as    *)
(* the register catalogue of device.rs uses them (CLKSEL = bit 2, length 3 *)
(* is bits 2..0; FS_SEL = bit 4, length 2 is bits 4..3).                   *)

get_bit(byte, n) == (byte \div Pow2(n)) % 2

set_bit(byte, n, enable) ==
    IF enable THEN byte + (1 - get_bit(byte, n)) * Pow2(n)
    ELSE byte - get_bit(byte, n) * Pow2(n)

mask_shift(bit_start, length) ==
    IF bit_start < length THEN 0 ELSE bit_start - length + 1

get_bits(byte, bit_start, length) ==
    (byte \div Pow2(mask_shift(bit_start, length))) % Pow2(length)

\* Mutant of set_bits: the new pattern is or-ed into the byte, the old one is not cleared.
set_bits_or(byte, bit_start, length, data) ==
    BitOr(byte, ((data % Pow2(length)) * Pow2(mask_shift(bit_start, length))) % 256)

set_bits(byte, bit_start, length, data) ==
    LET sh == mask_shift(bit_start, length)
        field == ((data % Pow2(length)) * Pow2(sh)) % 256
        old == (get_bits(byte, bit_start, length) * Pow2(sh)) % 256
    IN byte - old + field

----------------------------------------------------------------------------
(* device.rs: CLKSEL, AccelRange, GyroRange                                 *)

CLKSEL == {"OSCILL", "AUTOPLL1", "AUTOPLL2", "AUTOPLL3", "AUTOPLL4",
           "AUTOPLL5", "OSCILL6", "STOP"}

\* `source as u8`
CLKSEL_as_u8(v) ==
    CASE v = "OSCILL" -> 0
      [] v = "AUTOPLL1" -> 1
      [] v = "AUTOPLL2" -> 2
      [] v = "AUTOPLL3" -> 3
      [] v = "AUTOPLL4" -> 4
      [] v = "AUTOPLL5" -> 5
      [] v = "OSCILL6" -> 6
      [] v = "STOP" -> 7

\* Mutant of CLKSEL::from: unknown patterns fall back to the first variant.
CLKSEL_from_first(clk) ==
    CASE clk = 0 -> "OSCILL"
      [] clk = 1 -> "AUTOPLL1"
      [] clk = 2 -> "AUTOPLL2"
      [] clk = 3 -> "AUTOPLL3"
      [] clk = 4 -> "AUTOPLL4"
      [] clk = 5 -> "AUTOPLL5"
      [] clk = 6 -> "OSCILL6"
      [] clk = 7 -> "STOP"
      [] OTHER -> "OSCILL"

CLKSEL_from(clk) ==
    CASE clk = 0 -> "OSCILL"
      [] clk = 1 -> "AUTOPLL1"
      [] clk = 2 -> "AUTOPLL2"
      [] clk = 3 -> "AUTOPLL3"
      [] clk = 4 -> "AUTOPLL4"
      [] clk = 5 -> "AUTOPLL5"
      [] clk = 6 -> "OSCILL6"
      [] clk = 7 -> "STOP"
      [] OTHER -> "AUTOPLL1"

AccelRange == {"G2", "G4", "G8", "G16"}

AccelRange_as_u8(v) ==
    CASE v = "G2" -> 0
      [] v = "G4" -> 1
      [] v = "G8" -> 2
      [] v = "G16" -> 3

GyroRange == {"D250", "D500", "D1000", "D2000"}

GyroRange_as_u8(v) ==
    CASE v = "D250" -> 0
      [] v = "D500" -> 1
      [] v = "D1000" -> 2
      [] v = "D2000" -> 3

GyroRange_from(range) ==
    CASE range = 0 -> "D250"
      [] range = 1 -> "D500"
      [] range = 2 -> "D1000"
      [] range = 3 -> "D2000"
      [] OTHER -> "D250"

AccelRange_from(range) ==
    CASE range = 0 -> "G2"
      [] range = 1 -> "G4"
      [] range = 2 -> "G8"
      [] range = 3 -> "G16"
      [] OTHER -> "G2"

AccelRange_sensitivity(v) ==
    CASE v = "G2" -> ACCEL_SENS[1]
      [] v = "G4" -> ACCEL_SENS[2]
      [] v = "G8" -> ACCEL_SENS[3]
      [] v = "G16" -> ACCEL_SENS[4]

GyroRange_sensitivity(v) ==
    CASE v = "D250" -> GYRO_SENS[1]
      [] v = "D500" -> GYRO_SENS[2]
      [] v = "D1000" -> GYRO_SENS[3]
      [] v = "D2000" -> GYRO_SENS[4]

----------------------------------------------------------------------------
(* config.rs: AccelBw, GyroBw                                               *)

AccelBw == {"Hz1046", "Hz218", "Hz99", "Hz45", "Hz21", "Hz10", "Hz5", "Hz420"}

\* Bitfield::bits for AccelBw: `self as u8`, the enum discriminant.
AccelBw_bits(v) ==
    CASE v = "Hz1046" -> 8
      [] v = "Hz218" -> 0
      [] v = "Hz99" -> 2
      [] v = "Hz45" -> 3
      [] v = "Hz21" -> 4
      [] v = "Hz10" -> 5
      [] v = "Hz5" -> 6
      [] v = "Hz420" -> 7

\* Results of the fallible decodes.
DecOk(v) == [ok |-> TRUE, err |-> "none", val |-> v]
DecErr(e) == [ok |-> FALSE, err |-> e, val |-> "none"]

\* Mutant of AccelBw::try_from: the bypass pattern is one bit too high, as in GyroBw::try_from.
AccelBw_try_from_shifted(value) ==
    CASE value = 16 -> DecOk("Hz1046")
      [] value = 0 -> DecOk("Hz218")
      [] value = 2 -> DecOk("Hz99")
      [] value = 3 -> DecOk("Hz45")
      [] value = 4 -> DecOk("Hz21")
      [] value = 5 -> DecOk("Hz10")
      [] value = 6 -> DecOk("Hz5")
      [] value = 7 -> DecOk("Hz420")
      [] OTHER -> DecErr("InvalidDiscriminant")

AccelBw_try_from(value) ==
    CASE value = 8 -> DecOk("Hz1046")
      [] value = 0 -> DecOk("Hz218")
      [] value = 2 -> DecOk("Hz99")
      [] value = 3 -> DecOk("Hz45")
      [] value = 4 -> DecOk("Hz21")
      [] value = 5 -> DecOk("Hz10")
      [] value = 6 -> DecOk("Hz5")
      [] value = 7 -> DecOk("Hz420")
      [] OTHER -> DecErr("InvalidDiscriminant")

GyroBw == {"Hz8173", "Hz250", "Hz176", "Hz92", "Hz41", "Hz20", "Hz10", "Hz5", "Hz3281"}

\* Bitfield::bits for GyroBw: `self as u8`, the enum discriminant.
GyroBw_bits(v) ==
    CASE v = "Hz8173" -> 8
      [] v = "Hz250" -> 0
      [] v = "Hz176" -> 1
      [] v = "Hz92" -> 2
      [] v = "Hz41" -> 3
      [] v = "Hz20" -> 4
      [] v = "Hz10" -> 5
      [] v = "Hz5" -> 6
      [] v = "Hz3281" -> 7

GyroBw_try_from(value) ==
    CASE value = 16 -> DecOk("Hz8173")
      [] value = 0 -> DecOk("Hz250")
      [] value = 2 -> DecOk("Hz92")
      [] value = 3 -> DecOk("Hz41")
      [] value = 4 -> DecOk("Hz20")
      [] value = 5 -> DecOk("Hz10")
      [] value = 6 -> DecOk("Hz5")
      [] value = 7 -> DecOk("Hz3281")
      [] OTHER -> DecErr("InvalidDiscriminant")

----------------------------------------------------------------------------
(* The bus and the device behind it.                                        *)
(* m is the state a call works on: the device registers, the transactions  *)
(* issued so far by the call, and the two cached sensitivities.            *)

\* The registers the driver addresses: configuration, interrupt and power
\* registers, and the 14 data registers from ACC_REGX_H to the low byte of the
\* gyroscope's Z axis.  105 is the register setup_motion_detection writes as 0x69.
Regs ==
    {CONFIG_ADDR, GYRO_CONFIG_ADDR, ACCEL_CONFIG_ADDR, ACCEL_CONFIG_2_ADDR, MOT_THR, MOT_DUR,
     FIFO_EN, INT_PIN_CFG_ADDR, INT_ENABLE_ADDR, INT_STATUS_ADDR, 105, USER_CTRL,
     PWR_MGMT_1_ADDR, WHOAMI} \cup (ACC_REGX_H..(GYRO_REGX_H + 5))

\* The register contents after power-on or reset: PWR_MGMT_1 holds 0x40 (sleep),
\* WHOAMI the identity 0x19, everything else 0.
PowerOnRegs ==
    [r \in Regs |-> IF r = PWR_MGMT_1_ADDR THEN 64 ELSE IF r = WHOAMI THEN 25 ELSE 0]

Ok(v, m) == [ok |-> TRUE, err |-> "none", val |-> v, m |-> m]
Err(e, v, m) == [ok |-> FALSE, err |-> e, val |-> v, m |-> m]

\* Number of i2c transactions in a log (delays are logged too, but are no transaction).
BusCount(log) == Cardinality({i \in 1..Len(log) : log[i].kind # "delay_ms"})

Tx(kind, reg, val, ok) ==
    [kind |-> kind, addr |-> slave_addr, reg |-> reg, val |-> val, ok |-> ok]

\* What a write that goes through does to the device: the register takes the
\* byte; a device that obeys DEVICE_RESET (m.por) goes back to its power-on
\* contents instead when the byte written to PWR_MGMT_1 has that bit set.
Written(m, reg, byte) ==
    IF m.por /\ reg = PWR_MGMT_1_ADDR /\ get_bit(byte, PWR_MGMT_1_DEVICE_RESET) = 1
    THEN [PowerOnRegs EXCEPT ![WHOAMI] = m.regs[WHOAMI]]
    ELSE [m.regs EXCEPT ![reg] = byte]

\* i2c.write(slave_addr, &[reg, byte])
write_byte(m, reg, byte, fail) ==
    LET good == fail # BusCount(m.bus) + 1
        m1 == [m EXCEPT !.bus = Append(@, Tx("write", reg, byte, good)),
                        !.regs = IF good THEN Written(m, reg, byte) ELSE @]
    IN IF good THEN Ok(0, m1) ELSE Err("I2c", 0, m1)

\* Mutant of read_bytes: the transaction goes to the default address, not to
\* the address the driver was constructed with.
read_bytes_default(m, reg, n, fail) ==
    LET good == fail # BusCount(m.bus) + 1
        buf == IF ~good THEN [i \in 1..n |-> 0]
               ELSE IF reg = FIFO_R_W THEN [i \in 1..n |-> m.fifo[i]]
               ELSE [i \in 1..n |-> m.regs[reg + i - 1]]
        m1 == [m EXCEPT !.bus = Append(@, [Tx("write_read", reg, buf, good)
                                              EXCEPT !.addr = DEFAULT_SLAVE_ADDR])]
    IN IF good THEN Ok(buf, m1) ELSE Err("I2c", 0, m1)

\* i2c.write_read(slave_addr, &[reg], buf) with a buffer of n bytes: the device
\* answers with the registers reg, reg+1, ..., and at FIFO_R_W with the next n
\* bytes of its FIFO.
read_bytes(m, reg, n, fail) ==
    LET good == fail # BusCount(m.bus) + 1
        buf == IF ~good THEN [i \in 1..n |-> 0]
               ELSE IF reg = FIFO_R_W THEN [i \in 1..n |-> m.fifo[i]]
               ELSE [i \in 1..n |-> m.regs[reg + i - 1]]
        m1 == [m EXCEPT !.bus = Append(@, Tx("write_read", reg, buf, good))]
    IN IF good THEN Ok(buf, m1) ELSE Err("I2c", 0, m1)

read_byte(m, reg, fail) ==
    LET r == read_bytes(m, reg, 1, fail)
    IN IF r.ok THEN Ok(r.val[1], r.m) ELSE r

write_bit(m, reg, bit_n, enable, fail) ==
    LET r == read_bytes(m, reg, 1, fail)
    IN IF ~r.ok THEN r
       ELSE write_byte(r.m, reg, set_bit(r.val[1], bit_n, enable), fail)

\* Mutant of write_bits: the register is read a second time before it is written.
write_bits_reread(m, reg, start_bit, length, data, fail) ==
    LET r0 == read_bytes(m, reg, 1, fail)
        r == IF r0.ok THEN read_bytes(r0.m, reg, 1, fail) ELSE r0
    IN IF ~r.ok THEN r
       ELSE write_byte(r.m, reg, set_bits(r.val[1], start_bit, length, data), fail)

write_bits(m, reg, start_bit, length, data, fail) ==
    LET r == read_bytes(m, reg, 1, fail)
    IN IF ~r.ok THEN r
       ELSE write_byte(r.m, reg, set_bits(r.val[1], start_bit, length, data), fail)

read_bit(m, reg, bit_n, fail) ==
    LET r == read_bytes(m, reg, 1, fail)
    IN IF ~r.ok THEN r ELSE Ok(get_bit(r.val[1], bit_n), r.m)

read_bits(m, reg, start_bit, length, fail) ==
    LET r == read_bytes(m, reg, 1, fail)
    IN IF ~r.ok THEN r ELSE Ok(get_bits(r.val[1], start_bit, length), r.m)

\* delay.delay_ms(ms)
delay_ms(m, ms) == [m EXCEPT !.bus = Append(@, Tx("delay_ms", 0, ms, TRUE))]

----------------------------------------------------------------------------
(* lib.rs: the methods of Mpu6886                                           *)

\* Mutant of wake: clears PWR_MGMT_1 as setup_motion_detection does, selecting no PLL.
wake_zero(m, fail) ==
    LET r == write_byte(m, PWR_MGMT_1_ADDR, 0, fail)
    IN IF ~r.ok THEN r
       ELSE Ok(0, [r.m EXCEPT !.bus = Append(@, Tx("delay_ms", 0, 100, TRUE))])

wake(m, fail) ==
    LET r == write_byte(m, PWR_MGMT_1_ADDR, 1, fail)
    IN IF ~r.ok THEN r
       ELSE Ok(0, [r.m EXCEPT !.bus = Append(@, Tx("delay_ms", 0, 100, TRUE))])

\* Mutant of set_clock_source: the pattern is written as the whole byte, without
\* reading the register first.
set_clock_source_blind(m, source, fail) ==
    write_byte(m, PWR_MGMT_1_ADDR, CLKSEL_as_u8(source), fail)

set_clock_source(m, source, fail) ==
    write_bits(m, PWR_MGMT_1_ADDR, PWR_MGMT_1_CLKSEL.bit, PWR_MGMT_1_CLKSEL.length,
               CLKSEL_as_u8(source), fail)

get_clock_source(m, fail) ==
    LET r == read_bits(m, PWR_MGMT_1_ADDR, PWR_MGMT_1_CLKSEL.bit, PWR_MGMT_1_CLKSEL.length, fail)
    IN IF ~r.ok THEN r ELSE Ok(CLKSEL_from(r.val), r.m)

\* Mutant of verify: reports a fixed identity instead of the byte read.
verify_fixed_id(m, fail) ==
    LET r == read_byte(m, WHOAMI, fail)
    IN IF ~r.ok THEN r
       ELSE IF r.val # 25 THEN Err("InvalidChipId", 25, r.m)
       ELSE Ok(0, r.m)

verify(m, fail) ==
    LET r == read_byte(m, WHOAMI, fail)
    IN IF ~r.ok THEN r
       ELSE IF r.val # 25 THEN Err("InvalidChipId", r.val, r.m)
       ELSE Ok(0, r.m)

get_motion_detected(m, fail) ==
    LET mask == BitOr(BitOr(INT_STATUS_WOM_X_INT, INT_STATUS_WOM_Y_INT), INT_STATUS_WOM_Z_INT)
        r == read_bit(m, INT_STATUS_ADDR, mask, fail)
    IN IF ~r.ok THEN r ELSE Ok(r.val # 0, r.m)

set_gyro_range(m, range, fail) ==
    LET r == write_bits(m, GYRO_CONFIG_ADDR, GYRO_CONFIG_FS_SEL.bit,
                        GYRO_CONFIG_FS_SEL.length, GyroRange_as_u8(range), fail)
    IN IF ~r.ok THEN r
       ELSE Ok(0, [r.m EXCEPT !.gyro = GyroRange_sensitivity(range)])

\* Mutant of get_gyro_range: the field is read from ACCEL_CONFIG.
get_gyro_range_accel(m, fail) ==
    LET r == read_bits(m, ACCEL_CONFIG_ADDR, GYRO_CONFIG_FS_SEL.bit,
                       GYRO_CONFIG_FS_SEL.length, fail)
    IN IF ~r.ok THEN r ELSE Ok(GyroRange_from(r.val), r.m)

get_gyro_range(m, fail) ==
    LET r == read_bits(m, GYRO_CONFIG_ADDR, GYRO_CONFIG_FS_SEL.bit,
                       GYRO_CONFIG_FS_SEL.length, fail)
    IN IF ~r.ok THEN r ELSE Ok(GyroRange_from(r.val), r.m)

\* Mutant of set_accel_range: the cache is updated whether or not the write went through.
set_accel_range_eager(m, range, fail) ==
    LET r == write_bits(m, ACCEL_CONFIG_ADDR, ACCEL_CONFIG_FS_SEL.bit,
                        ACCEL_CONFIG_FS_SEL.length, AccelRange_as_u8(range), fail)
    IN [r EXCEPT !.m.acc = AccelRange_sensitivity(range)]

set_accel_range(m, range, fail) ==
    LET r == write_bits(m, ACCEL_CONFIG_ADDR, ACCEL_CONFIG_FS_SEL.bit,
                        ACCEL_CONFIG_FS_SEL.length, AccelRange_as_u8(range), fail)
    IN IF ~r.ok THEN r
       ELSE Ok(0, [r.m EXCEPT !.acc = AccelRange_sensitivity(range)])

get_accel_range(m, fail) ==
    LET r == read_bits(m, ACCEL_CONFIG_ADDR, ACCEL_CONFIG_FS_SEL.bit,
                       ACCEL_CONFIG_FS_SEL.length, fail)
    IN IF ~r.ok THEN r ELSE Ok(AccelRange_from(r.val), r.m)

set_sleep_enabled(m, enable, fail) ==
    write_bit(m, PWR_MGMT_1_ADDR, PWR_MGMT_1_SLEEP, enable, fail)

get_sleep_enabled(m, fail) ==
    LET r == read_bit(m, PWR_MGMT_1_ADDR, PWR_MGMT_1_SLEEP, fail)
    IN IF ~r.ok THEN r ELSE Ok(r.val # 0, r.m)

\* Mutant of set_temp_enabled: the flag is written as given, not inverted.
set_temp_enabled_plain(m, enable, fail) ==
    write_bit(m, PWR_MGMT_1_ADDR, PWR_MGMT_1_TEMP_DIS, enable, fail)

\* TEMP_DIS is a disable bit: the flag is inverted on the way in and on the way out.
set_temp_enabled(m, enable, fail) ==
    write_bit(m, PWR_MGMT_1_ADDR, PWR_MGMT_1_TEMP_DIS, ~enable, fail)

get_temp_enabled(m, fail) ==
    LET r == read_bit(m, PWR_MGMT_1_ADDR, PWR_MGMT_1_TEMP_DIS, fail)
    IN IF ~r.ok THEN r ELSE Ok(r.val = 0, r.m)

set_accel_x_self_test(m, enable, fail) ==
    write_bit(m, ACCEL_CONFIG_ADDR, ACCEL_CONFIG_XA_ST, enable, fail)

get_accel_x_self_test(m, fail) ==
    LET r == read_bit(m, ACCEL_CONFIG_ADDR, ACCEL_CONFIG_XA_ST, fail)
    IN IF ~r.ok THEN r ELSE Ok(r.val # 0, r.m)

set_accel_y_self_test(m, enable, fail) ==
    write_bit(m, ACCEL_CONFIG_ADDR, ACCEL_CONFIG_YA_ST, enable, fail)

get_accel_y_self_test(m, fail) ==
    LET r == read_bit(m, ACCEL_CONFIG_ADDR, ACCEL_CONFIG_YA_ST, fail)
    IN IF ~r.ok THEN r ELSE Ok(r.val # 0, r.m)

set_accel_z_self_test(m, enable, fail) ==
    write_bit(m, ACCEL_CONFIG_ADDR, ACCEL_CONFIG_ZA_ST, enable, fail)

get_accel_z_self_test(m, fail) ==
    LET r == read_bit(m, ACCEL_CONFIG_ADDR, ACCEL_CONFIG_ZA_ST, fail)
    IN IF ~r.ok THEN r ELSE Ok(r.val # 0, r.m)

\* Mutant of read_word_2c: the sign test leaves 0x8000 out.
read_word_2c_above(byte) ==
    LET high == byte[1]
        low == byte[2]
        word == high * 256 + low
    IN IF word > 32768 THEN -((65535 - word) + 1) ELSE word

\* i32 arithmetic on two bytes: nothing overflows.
read_word_2c(byte) ==
    LET high == byte[1]
        low == byte[2]
        word == high * 256 + low
    IN IF word >= 32768 THEN -((65535 - word) + 1) ELSE word

\* Mutant of setup_motion_detection: a failure is answered by putting PWR_MGMT_1
\* back to sleep.
setup_motion_detection_undo(m, fail) ==
    LET r1 == write_byte(m, 107, 0, fail)
        r2 == IF r1.ok THEN write_byte(r1.m, INT_PIN_CFG_ADDR, 32, fail) ELSE r1
        r3 == IF r2.ok THEN write_byte(r2.m, ACCEL_CONFIG_ADDR, 1, fail) ELSE r2
        r4 == IF r3.ok THEN write_byte(r3.m, MOT_THR, 10, fail) ELSE r3
        r5 == IF r4.ok THEN write_byte(r4.m, MOT_DUR, 40, fail) ELSE r4
        r6 == IF r5.ok THEN write_byte(r5.m, 105, 21, fail) ELSE r5
        r7 == IF r6.ok THEN write_byte(r6.m, INT_ENABLE_ADDR, 64, fail) ELSE r6
    IN IF r7.ok THEN Ok(0, r7.m)
       ELSE [r7 EXCEPT !.m = write_byte(r7.m, 107, 64, fail).m]

\* Mutant of setup_motion_detection: the high-pass filter bits are set in
\* ACCEL_CONFIG by a read-modify-write of its low four bits.
setup_motion_detection_rmw(m, fail) ==
    LET r1 == write_byte(m, 107, 0, fail)
        r2 == IF r1.ok THEN write_byte(r1.m, INT_PIN_CFG_ADDR, 32, fail) ELSE r1
        r3 == IF r2.ok THEN write_bits(r2.m, ACCEL_CONFIG_ADDR, 3, 4, 1, fail) ELSE r2
        r4 == IF r3.ok THEN write_byte(r3.m, MOT_THR, 10, fail) ELSE r3
        r5 == IF r4.ok THEN write_byte(r4.m, MOT_DUR, 40, fail) ELSE r4
        r6 == IF r5.ok THEN write_byte(r5.m, 105, 21, fail) ELSE r5
        r7 == IF r6.ok THEN write_byte(r6.m, INT_ENABLE_ADDR, 64, fail) ELSE r6
    IN IF r7.ok THEN Ok(0, r7.m) ELSE r7

\* Plain byte writes, one after the other, each followed by `?`: a write is
\* issued when the one before it was Ok.  107 is PWR_MGMT_1, written as 0x6B.
setup_motion_detection(m, fail) ==
    LET r1 == write_byte(m, 107, 0, fail)
        r2 == IF r1.ok THEN write_byte(r1.m, INT_PIN_CFG_ADDR, 32, fail) ELSE r1
        r3 == IF r2.ok THEN write_byte(r2.m, ACCEL_CONFIG_ADDR, 1, fail) ELSE r2
        r4 == IF r3.ok THEN write_byte(r3.m, MOT_THR, 10, fail) ELSE r3
        r5 == IF r4.ok THEN write_byte(r4.m, MOT_DUR, 40, fail) ELSE r4
        r6 == IF r5.ok THEN write_byte(r5.m, 105, 21, fail) ELSE r5
        r7 == IF r6.ok THEN write_byte(r6.m, INT_ENABLE_ADDR, 64, fail) ELSE r6
    IN IF r7.ok THEN Ok(0, r7.m) ELSE r7

\* Mutant of reset_device: the cached sensitivities are put back to the defaults
\* the device takes on reset.
reset_device_recache(m, fail) ==
    LET r == write_bit(m, PWR_MGMT_1_ADDR, PWR_MGMT_1_DEVICE_RESET, TRUE, fail)
    IN IF ~r.ok THEN r
       ELSE Ok(0, [delay_ms(r.m, 100) EXCEPT !.acc = ACCEL_SENS[1], !.gyro = GYRO_SENS[1]])

\* Mutant of reset_device: the bit set is SLEEP.
reset_device_sleep(m, fail) ==
    LET r == write_bit(m, PWR_MGMT_1_ADDR, PWR_MGMT_1_SLEEP, TRUE, fail)
    IN IF ~r.ok THEN r ELSE Ok(0, delay_ms(r.m, 100))

reset_device(m, fail) ==
    LET r == write_bit(m, PWR_MGMT_1_ADDR, PWR_MGMT_1_DEVICE_RESET, TRUE, fail)
    IN IF ~r.ok THEN r ELSE Ok(0, delay_ms(r.m, 100))

get_accel_bandwith(m, fail) ==
    LET r == read_bits(m, ACCEL_CONFIG_2_ADDR, 3, 4, fail)
        bw == AccelBw_try_from(r.val)
    IN IF ~r.ok THEN r
       ELSE IF bw.ok THEN Ok(bw.val, r.m) ELSE Err(bw.err, 0, r.m)

set_accel_bw(m, bw, fail) ==
    LET r1 == write_byte(m, CONFIG_ADDR, AccelBw_bits(bw), fail)
        r2 == IF r1.ok THEN write_byte(r1.m, GYRO_CONFIG_ADDR, AccelBw_bits(bw), fail) ELSE r1
    IN IF r2.ok THEN Ok(0, r2.m) ELSE r2

get_gyro_bandwith(m, fail) ==
    LET r1 == read_bits(m, CONFIG_ADDR, 2, 3, fail)
    IN IF ~r1.ok THEN r1
       ELSE LET r2 == read_bits(r1.m, GYRO_CONFIG_ADDR, 1, 2, fail)
                bw == GyroBw_try_from(BitOr(r1.val, (r2.val * 8) % 256))
            IN IF ~r2.ok THEN r2
               ELSE IF bw.ok THEN Ok(bw.val, r2.m) ELSE Err(bw.err, 0, r2.m)

\* Mutant of set_gyro_bw: the line the source has commented out is executed.
set_gyro_bw_write(m, bw, fail) == write_byte(m, ACCEL_CONFIG_2_ADDR, GyroBw_bits(bw), fail)

\* The body is commented out in the source: nothing is written.
set_gyro_bw(m, bw, fail) == Ok(0, m)

\* An f32 value kept exact: the fraction num / den times the constant `by`
\* ("one", "GRAVITY" or "PI_180").  Sensitivities are in tenths, so a word
\* divided by a sensitivity is 10 * word over the sensitivity.
Scaled(num, den, by) == [num |-> num, den |-> den, by |-> by]

Zero == Scaled(0, 1, "one")

\* (raw / TEMP_SENSITIVITY) + TEMP_OFFSET
Celsius(raw) == Scaled(10 * raw + TEMP_OFFSET * TEMP_SENSITIVITY, TEMP_SENSITIVITY, "one")

read_rot(m, reg, fail) ==
    LET r == read_bytes(m, reg, 6, fail)
    IN IF ~r.ok THEN r
       ELSE Ok(<<read_word_2c(SubSeq(r.val, 1, 2)), read_word_2c(SubSeq(r.val, 3, 4)),
                 read_word_2c(SubSeq(r.val, 5, 6))>>, r.m)

\* Mutant of get_acc: the counts are divided by the divisor of the default range.
get_acc_default(m, fail) ==
    LET r == read_rot(m, ACC_REGX_H, fail)
    IN IF ~r.ok THEN r
       ELSE Ok([i \in 1..3 |-> Scaled(10 * r.val[i], ACCEL_SENS[1], "one")], r.m)

get_acc(m, fail) ==
    LET r == read_rot(m, ACC_REGX_H, fail)
    IN IF ~r.ok THEN r
       ELSE Ok([i \in 1..3 |-> Scaled(10 * r.val[i], m.acc, "one")], r.m)

get_gyro(m, fail) ==
    LET r == read_rot(m, GYRO_REGX_H, fail)
    IN IF ~r.ok THEN r
       ELSE Ok([i \in 1..3 |-> Scaled(10 * r.val[i], m.gyro, "PI_180")], r.m)

\* Mutant of get_temp: the two bytes are read one at a time.
get_temp_bytewise(m, fail) ==
    LET r1 == read_bytes(m, TEMP_OUT_H, 1, fail)
        r2 == IF r1.ok THEN read_bytes(r1.m, TEMP_OUT_H + 1, 1, fail) ELSE r1
    IN IF ~r2.ok THEN r2 ELSE Ok(Celsius(read_word_2c(<<r1.val[1], r2.val[1]>>)), r2.m)

get_temp(m, fail) ==
    LET r == read_bytes(m, TEMP_OUT_H, 2, fail)
    IN IF ~r.ok THEN r ELSE Ok(Celsius(read_word_2c(SubSeq(r.val, 1, 2))), r.m)

\* Roll and pitch are functions (atan2f, sqrtf, powf) of the acceleration read;
\* they are kept as that vector.
get_acc_angles(m, fail) ==
    LET r == get_acc(m, fail)
    IN IF ~r.ok THEN r ELSE Ok([angles_of |-> r.val], r.m)

\* Mutant of enable_fifo: the FIFO is enabled before the two resets.
enable_fifo_early(m, accel, gyro, fail) ==
    LET r1 == write_bit(m, FIFO_EN, 3, accel, fail)
        r2 == IF r1.ok THEN write_bit(r1.m, FIFO_EN, 4, gyro, fail) ELSE r1
        r3 == IF r2.ok THEN write_bit(r2.m, USER_CTRL, 6, TRUE, fail) ELSE r2
        r4 == IF r3.ok THEN write_bit(r3.m, USER_CTRL, 0, TRUE, fail) ELSE r3
        r5 == IF r4.ok THEN write_bit(r4.m, USER_CTRL, 2, TRUE, fail) ELSE r4
    IN IF r5.ok THEN Ok(0, r5.m) ELSE r5

\* Mutant of enable_fifo: a failure of the first write_bit is ignored.
enable_fifo_lenient(m, accel, gyro, fail) ==
    LET r1 == write_bit(m, FIFO_EN, 3, accel, fail)
        r2 == write_bit(r1.m, FIFO_EN, 4, gyro, fail)
        r3 == IF r2.ok THEN write_bit(r2.m, USER_CTRL, 0, TRUE, fail) ELSE r2
        r4 == IF r3.ok THEN write_bit(r3.m, USER_CTRL, 2, TRUE, fail) ELSE r3
        r5 == IF r4.ok THEN write_bit(r4.m, USER_CTRL, 6, TRUE, fail) ELSE r4
    IN IF r5.ok THEN Ok(0, r5.m) ELSE r5

enable_fifo(m, accel, gyro, fail) ==
    LET r1 == write_bit(m, FIFO_EN, 3, accel, fail)
        r2 == IF r1.ok THEN write_bit(r1.m, FIFO_EN, 4, gyro, fail) ELSE r1
        r3 == IF r2.ok THEN write_bit(r2.m, USER_CTRL, 0, TRUE, fail) ELSE r2
        r4 == IF r3.ok THEN write_bit(r3.m, USER_CTRL, 2, TRUE, fail) ELSE r3
        r5 == IF r4.ok THEN write_bit(r4.m, USER_CTRL, 6, TRUE, fail) ELSE r4
    IN IF r5.ok THEN Ok(0, r5.m) ELSE r5

\* Mutant of read_fifo: a frame is taken for empty when its second byte is 0xFF.
read_fifo_second(m, fail) ==
    LET r == read_bytes(m, FIFO_R_W, 14, fail)
        buf == r.val
        word(i) == read_word_2c(SubSeq(buf, i, i + 1))
    IN IF ~r.ok THEN r
       ELSE IF buf[2] # 255
       THEN Ok(<< <<Scaled(10 * word(1), m.acc, "one"), Scaled(10 * word(3), m.acc, "one"),
                    Scaled(10 * word(5), m.acc, "one")>>,
                  <<Scaled(10 * word(9), m.gyro, "one"), Scaled(10 * word(11), m.gyro, "one"),
                    Scaled(10 * word(13), m.gyro, "one")>>,
                  <<Celsius(word(7)), Zero, Zero>> >>, r.m)
       ELSE Err("NofFifoData", 0, r.m)

\* The frame is accel x, y, z, temperature, gyro x, y, z, two bytes each.
read_fifo(m, fail) ==
    LET r == read_bytes(m, FIFO_R_W, 14, fail)
        buf == r.val
        word(i) == read_word_2c(SubSeq(buf, i, i + 1))
    IN IF ~r.ok THEN r
       ELSE IF buf[1] # 255
       THEN Ok(<< <<Scaled(10 * word(1), m.acc, "one"), Scaled(10 * word(3), m.acc, "one"),
                    Scaled(10 * word(5), m.acc, "one")>>,
                  <<Scaled(10 * word(9), m.gyro, "one"), Scaled(10 * word(11), m.gyro, "one"),
                    Scaled(10 * word(13), m.gyro, "one")>>,
                  <<Celsius(word(7)), Zero, Zero>> >>, r.m)
       ELSE Err("NofFifoData", 0, r.m)

\* read_fifo, then the acceleration times GRAVITY and the rotation times PI_180.
read_fifo_si(m, fail) ==
    LET r == read_fifo(m, fail)
    IN IF ~r.ok THEN r
       ELSE Ok(<< [i \in 1..3 |-> [r.val[1][i] EXCEPT !.by = "GRAVITY"]],
                  [i \in 1..3 |-> [r.val[2][i] EXCEPT !.by = "PI_180"]],
                  r.val[3] >>, r.m)

\* Mutant of init: the identity is checked after the ranges are set.
init_verify_last(m, fail) ==
    LET r1 == wake(m, fail)
    IN IF ~r1.ok THEN r1
       ELSE LET r3 == set_accel_range(r1.m, "G2", fail)
            IN IF ~r3.ok THEN r3
               ELSE LET r4 == set_gyro_range(r3.m, "D250", fail)
                    IN IF ~r4.ok THEN r4
                       ELSE LET r2 == verify(r4.m, fail)
                            IN IF ~r2.ok THEN r2 ELSE Ok(0, r2.m)

init(m, fail) ==
    LET r1 == wake(m, fail)
    IN IF ~r1.ok THEN r1
       ELSE LET r2 == verify(r1.m, fail)
            IN IF ~r2.ok THEN r2
               ELSE LET r3 == set_accel_range(r2.m, "G2", fail)
                    IN IF ~r3.ok THEN r3
                       ELSE LET r4 == set_gyro_range(r3.m, "D250", fail)
                            IN IF ~r4.ok THEN r4 ELSE Ok(0, r4.m)

----------------------------------------------------------------------------
(* Construction                                                             *)

\* The four constructors; none touches the bus.
new == [slave_addr |-> DEFAULT_SLAVE_ADDR,
        acc_sensitivity |-> ACCEL_SENS[1], gyro_sensitivity |-> GYRO_SENS[1]]

new_with_sens(arange, grange) ==
    [slave_addr |-> DEFAULT_SLAVE_ADDR,
     acc_sensitivity |-> AccelRange_sensitivity(arange),
     gyro_sensitivity |-> GyroRange_sensitivity(grange)]

new_with_addr(addr) ==
    [slave_addr |-> addr,
     acc_sensitivity |-> ACCEL_SENS[1], gyro_sensitivity |-> GYRO_SENS[1]]

new_with_addr_and_sens(addr, arange, grange) ==
    [slave_addr |-> addr,
     acc_sensitivity |-> AccelRange_sensitivity(arange),
     gyro_sensitivity |-> GyroRange_sensitivity(grange)]

\* Slave addresses given to new_with_addr: 0x69 is the chip with its address pin pulled up.
AltAddrs == {105}

\* Range pairs given to new_with_sens: every accelerometer and every gyroscope
\* range occurs, and the two indices differ in all pairs but the default one.
CtorRanges == {<<"G2", "D250">>, <<"G4", "D2000">>, <<"G8", "D500">>, <<"G16", "D1000">>}

Constructed ==
    {new} \cup {new_with_sens(p[1], p[2]) : p \in CtorRanges}
          \cup {new_with_addr(addr) : addr \in AltAddrs}
          \cup {new_with_addr_and_sens(addr, p[1], p[2]) : addr \in AltAddrs, p \in CtorRanges}

\* Register contents the device may hold when the driver is constructed:
\* all bits clear, all bits set, the power-on value of PWR_MGMT_1 (sleep set),
\* and for WHOAMI this chip's identity byte or another chip's.
InitBytes == {0, 255}
PowerBytes == {0, 64, 255}
ChipIds == {25, 104}

InitRegs ==
    {[r \in Regs |-> CASE r = GYRO_CONFIG_ADDR -> g
                       [] r = ACCEL_CONFIG_ADDR -> a
                       [] r = PWR_MGMT_1_ADDR -> p
                       [] r = WHOAMI -> w
                       [] OTHER -> 0] :
        g \in InitBytes, a \in InitBytes, p \in PowerBytes, w \in ChipIds}

\* A driver just constructed, in front of a device holding `image`; `kind` says
\* whether the device obeys DEVICE_RESET by going back to its power-on contents.
Boot(dev, image, kind) ==
    /\ regs = image
    /\ por = kind
    /\ slave_addr = dev.slave_addr
    /\ acc_sensitivity = dev.acc_sensitivity
    /\ gyro_sensitivity = dev.gyro_sensitivity
    /\ call = [op |-> "new", arg |-> "none"]
    /\ ret = [ok |-> TRUE, err |-> "none", val |-> 0]
    /\ bus = <<>>
    /\ prev = [op |-> "none", ok |-> TRUE]
    /\ nops = 0
    /\ conv = <<>>

\* In front of a device that is a plain register file.
Start(dev, image) == Boot(dev, image, FALSE)

Init == \E dev \in Constructed, image \in InitRegs : Start(dev, image)

\* The state: the driver's fields (slave_addr and the two cached sensitivities),
\* the registers of the device behind the bus, and the record of the last call.
TypeOK ==
    /\ regs \in [Regs -> Byte]
    /\ por \in BOOLEAN
    /\ slave_addr \in Byte
    /\ acc_sensitivity \in {ACCEL_SENS[i] : i \in 1..4}
    /\ gyro_sensitivity \in {GYRO_SENS[i] : i \in 1..4}
    /\ call.op \in STRING
    /\ ret.ok \in BOOLEAN
    /\ ret.err \in {"none", "I2c", "InvalidChipId", "InvalidDiscriminant", "NofFifoData"}
    /\ \A i \in 1..Len(bus) :
          /\ bus[i].kind \in {"write", "write_read", "delay_ms"}
          /\ bus[i].addr = slave_addr
          /\ bus[i].ok \in BOOLEAN
    /\ prev.ok \in BOOLEAN
    /\ nops \in 0..MaxOps
    /\ Len(conv) \in 0..2

----------------------------------------------------------------------------
(* One public call                                                          *)

\* The driver and the device at the start of a call.  `fifo` is what the device
\* would deliver at FIFO_R_W; the calls that read it are given a frame.
Cur == [regs |-> regs, bus |-> <<>>, acc |-> acc_sensitivity, gyro |-> gyro_sensitivity,
        fifo |-> <<>>, por |-> por]

Return(op, arg, r) ==
    /\ nops < MaxOps
    /\ nops' = nops + 1
    /\ prev' = [op |-> call.op, ok |-> ret.ok]
    /\ call' = [op |-> op, arg |-> arg]
    /\ ret' = [ok |-> r.ok, err |-> r.err, val |-> r.val]
    /\ bus' = r.m.bus
    /\ regs' = r.m.regs
    /\ acc_sensitivity' = r.m.acc
    /\ gyro_sensitivity' = r.m.gyro
    /\ UNCHANGED <<por, slave_addr, conv>>

\* The caller's position: nothing called yet, or nothing but the setter `op`.
FirstCall == call.op = "new"
After(op) == call.op \in {"new", op}

Call_init == \E fail \in 0..6 : Return("init", "none", init(Cur, fail))

Call_set_accel_range ==
    \E range \in AccelRange, fail \in 0..2 :
        Return("set_accel_range", range, set_accel_range(Cur, range, fail))

Call_set_gyro_range ==
    \E range \in GyroRange, fail \in 0..2 :
        Return("set_gyro_range", range, set_gyro_range(Cur, range, fail))

Call_get_accel_range ==
    \E fail \in 0..1 : Return("get_accel_range", "none", get_accel_range(Cur, fail))

Call_get_gyro_range ==
    \E fail \in 0..1 : Return("get_gyro_range", "none", get_gyro_range(Cur, fail))

Call_get_sleep_enabled ==
    \E fail \in 0..1 : Return("get_sleep_enabled", "none", get_sleep_enabled(Cur, fail))

Call_get_clock_source ==
    \E fail \in 0..1 : Return("get_clock_source", "none", get_clock_source(Cur, fail))

Call_get_motion_detected ==
    \E fail \in 0..1 : Return("get_motion_detected", "none", get_motion_detected(Cur, fail))

Next ==
    \/ Call_init
    \/ Call_set_accel_range
    \/ Call_set_gyro_range
    \/ Call_get_accel_range
    \/ Call_get_gyro_range
    \/ Call_get_sleep_enabled
    \/ Call_get_clock_source

Spec == Init /\ [][Next]_vars

----------------------------------------------------------------------------
(* The identity and interrupt-status bytes, swept over every value: the    *)
(* device is in its power-on state but for one of the two registers,       *)
(* which holds an arbitrary byte.                                           *)

SweepInit ==
    \E dev \in {new, new_with_sens("G16", "D1000")}, r \in {WHOAMI, INT_STATUS_ADDR}, b \in Byte :
        Start(dev, [PowerOnRegs EXCEPT ![r] = b])

SweepNext ==
    \/ Call_init
    \/ Call_get_motion_detected

SweepSpec == SweepInit /\ [][SweepNext]_vars

----------------------------------------------------------------------------
(* The configuration fields, on every register content: the device is in   *)
(* its power-on state but for one of PWR_MGMT_1, ACCEL_CONFIG and          *)
(* GYRO_CONFIG, which holds an arbitrary byte.  The caller makes one call  *)
(* of a setter or a getter, or of write_bit or write_bits, and after a      *)
(* setter may call the getter of the same field.                            *)

Call_set_clock_source ==
    \E source \in CLKSEL, fail \in 0..2 :
        Return("set_clock_source", source, set_clock_source(Cur, source, fail))

Call_set_sleep_enabled ==
    \E enable \in BOOLEAN, fail \in 0..2 :
        Return("set_sleep_enabled", enable, set_sleep_enabled(Cur, enable, fail))

Call_set_temp_enabled ==
    \E enable \in BOOLEAN, fail \in 0..2 :
        Return("set_temp_enabled", enable, set_temp_enabled(Cur, enable, fail))

Call_get_temp_enabled ==
    \E fail \in 0..1 : Return("get_temp_enabled", "none", get_temp_enabled(Cur, fail))

Call_set_accel_x_self_test ==
    \E enable \in BOOLEAN, fail \in 0..2 :
        Return("set_accel_x_self_test", enable, set_accel_x_self_test(Cur, enable, fail))

Call_get_accel_x_self_test ==
    \E fail \in 0..1 :
        Return("get_accel_x_self_test", "none", get_accel_x_self_test(Cur, fail))

Call_set_accel_y_self_test ==
    \E enable \in BOOLEAN, fail \in 0..2 :
        Return("set_accel_y_self_test", enable, set_accel_y_self_test(Cur, enable, fail))

Call_get_accel_y_self_test ==
    \E fail \in 0..1 :
        Return("get_accel_y_self_test", "none", get_accel_y_self_test(Cur, fail))

Call_set_accel_z_self_test ==
    \E enable \in BOOLEAN, fail \in 0..2 :
        Return("set_accel_z_self_test", enable, set_accel_z_self_test(Cur, enable, fail))

Call_get_accel_z_self_test ==
    \E fail \in 0..1 :
        Return("get_accel_z_self_test", "none", get_accel_z_self_test(Cur, fail))

FieldRegs == {PWR_MGMT_1_ADDR, ACCEL_CONFIG_ADDR, GYRO_CONFIG_ADDR}

\* Fields given to write_bits and read_bits, as <<start_bit, length>>: those of
\* the register catalogue (CLKSEL and DLPF_CFG, FS_SEL, FCHOICE_B), the one
\* get_accel_bandwith reads, and the whole byte.
BitFields == {<<2, 3>>, <<4, 2>>, <<1, 2>>, <<3, 4>>, <<7, 8>>}

\* Data given to write_bits: all bits clear, a mixed pattern, all bits set (wider
\* than every field but the whole byte).
FieldData == {0, 5, 255}

Call_write_bit ==
    \E reg \in FieldRegs, bit_n \in 0..7, enable \in BOOLEAN, fail \in 0..2 :
        Return("write_bit", [reg |-> reg, bit_n |-> bit_n, enable |-> enable],
               write_bit(Cur, reg, bit_n, enable, fail))

Call_write_bits ==
    \E reg \in FieldRegs, f \in BitFields, data \in FieldData, fail \in 0..2 :
        Return("write_bits", [reg |-> reg, start_bit |-> f[1], length |-> f[2], data |-> data],
               write_bits(Cur, reg, f[1], f[2], data, fail))

FieldInit ==
    \E r \in FieldRegs, b \in Byte : Start(new, [PowerOnRegs EXCEPT ![r] = b])

FieldNext ==
    \/ FirstCall /\ Call_set_clock_source
    \/ After("set_clock_source") /\ Call_get_clock_source
    \/ FirstCall /\ Call_set_accel_range
    \/ After("set_accel_range") /\ Call_get_accel_range
    \/ FirstCall /\ Call_set_gyro_range
    \/ After("set_gyro_range") /\ Call_get_gyro_range
    \/ FirstCall /\ Call_set_sleep_enabled
    \/ After("set_sleep_enabled") /\ Call_get_sleep_enabled
    \/ FirstCall /\ Call_set_temp_enabled
    \/ After("set_temp_enabled") /\ Call_get_temp_enabled
    \/ FirstCall /\ Call_set_accel_x_self_test
    \/ After("set_accel_x_self_test") /\ Call_get_accel_x_self_test
    \/ FirstCall /\ Call_set_accel_y_self_test
    \/ After("set_accel_y_self_test") /\ Call_get_accel_y_self_test
    \/ FirstCall /\ Call_set_accel_z_self_test
    \/ After("set_accel_z_self_test") /\ Call_get_accel_z_self_test
    \/ FirstCall /\ Call_write_bit
    \/ FirstCall /\ Call_write_bits

FieldSpec == FieldInit /\ [][FieldNext]_vars

----------------------------------------------------------------------------
(* The configuration codec on its own: `conv` is the chain of conversions  *)
(* applied so far, each with its input and its output.  A chain starts     *)
(* with a variant being encoded or a byte being decoded; the opposite      *)
(* conversion may then be applied to what came out.                        *)

Families == {"CLKSEL", "AccelRange", "GyroRange", "AccelBw", "GyroBw"}

Variants(fam) ==
    CASE fam = "CLKSEL" -> CLKSEL
      [] fam = "AccelRange" -> AccelRange
      [] fam = "GyroRange" -> GyroRange
      [] fam = "AccelBw" -> AccelBw
      [] fam = "GyroBw" -> GyroBw

\* `v as u8` for the enums of device.rs, Bitfield::bits for those of config.rs.
Encode(fam, v) ==
    CASE fam = "CLKSEL" -> CLKSEL_as_u8(v)
      [] fam = "AccelRange" -> AccelRange_as_u8(v)
      [] fam = "GyroRange" -> GyroRange_as_u8(v)
      [] fam = "AccelBw" -> AccelBw_bits(v)
      [] fam = "GyroBw" -> GyroBw_bits(v)

\* From<u8> (which cannot fail) for the enums of device.rs, TryFrom<u8> for those of config.rs.
Decode(fam, x) ==
    CASE fam = "CLKSEL" -> DecOk(CLKSEL_from(x))
      [] fam = "AccelRange" -> DecOk(AccelRange_from(x))
      [] fam = "GyroRange" -> DecOk(GyroRange_from(x))
      [] fam = "AccelBw" -> AccelBw_try_from(x)
      [] fam = "GyroBw" -> GyroBw_try_from(x)

Conv_encode ==
    \E fam \in Families : \E v \in Variants(fam) :
        /\ conv = <<>>
        /\ conv' = <<[fam |-> fam, dir |-> "encode", in |-> v, out |-> Encode(fam, v)]>>
        /\ UNCHANGED <<regs, por, slave_addr, acc_sensitivity, gyro_sensitivity,
                       call, ret, bus, prev, nops>>

Conv_decode ==
    \E fam \in Families, x \in Byte :
        /\ conv = <<>>
        /\ conv' = <<[fam |-> fam, dir |-> "decode", in |-> x, out |-> Decode(fam, x)]>>
        /\ UNCHANGED <<regs, por, slave_addr, acc_sensitivity, gyro_sensitivity,
                       call, ret, bus, prev, nops>>

Conv_decode_encoded ==
    /\ Len(conv) = 1
    /\ conv[1].dir = "encode"
    /\ conv' = Append(conv, [fam |-> conv[1].fam, dir |-> "decode", in |-> conv[1].out,
                             out |-> Decode(conv[1].fam, conv[1].out)])
    /\ UNCHANGED <<regs, por, slave_addr, acc_sensitivity, gyro_sensitivity,
                   call, ret, bus, prev, nops>>

Conv_encode_decoded ==
    /\ Len(conv) = 1
    /\ conv[1].dir = "decode"
    /\ conv[1].out.ok
    /\ conv' = Append(conv, [fam |-> conv[1].fam, dir |-> "encode", in |-> conv[1].out.val,
                             out |-> Encode(conv[1].fam, conv[1].out.val)])
    /\ UNCHANGED <<regs, por, slave_addr, acc_sensitivity, gyro_sensitivity,
                   call, ret, bus, prev, nops>>

CodecInit == Start(new, PowerOnRegs)

CodecNext ==
    \/ Conv_encode
    \/ Conv_decode
    \/ Conv_decode_encoded
    \/ Conv_encode_decoded

CodecSpec == CodecInit /\ [][CodecNext]_vars

----------------------------------------------------------------------------
(* The FIFO: the device is in its power-on state and delivers, at every    *)
(* read of FIFO_R_W, a frame of 14 bytes: any first byte, followed by one  *)
(* of three tails (all bits clear, all bits set, and a frame of words of   *)
(* both signs).  The caller makes one call.                                 *)

FifoTails ==
    { [i \in 1..13 |-> 0], [i \in 1..13 |-> 255],
      <<52, 128, 0, 127, 255, 12, 196, 255, 255, 0, 1, 128, 1>> }

FifoFrames == {<<b>> \o tail : b \in Byte, tail \in FifoTails}

Call_read_fifo ==
    \E frame \in FifoFrames, fail \in 0..1 :
        Return("read_fifo", "none", read_fifo([Cur EXCEPT !.fifo = frame], fail))

Call_read_fifo_si ==
    \E frame \in FifoFrames, fail \in 0..1 :
        Return("read_fifo_si", "none", read_fifo_si([Cur EXCEPT !.fifo = frame], fail))

FifoInit == \E dev \in {new, new_with_sens("G16", "D1000")} : Start(dev, PowerOnRegs)

FifoNext ==
    \/ FirstCall /\ Call_read_fifo
    \/ FirstCall /\ Call_read_fifo_si

FifoSpec == FifoInit /\ [][FifoNext]_vars

----------------------------------------------------------------------------
(* The whole public interface: every register of the device but WHOAMI     *)
(* holds the same byte, one of four patterns, and the caller makes one     *)
(* call of any public method.                                               *)

Call_setup_motion_detection ==
    \E fail \in 0..7 :
        Return("setup_motion_detection", "none", setup_motion_detection(Cur, fail))

Call_reset_device ==
    \E fail \in 0..2 : Return("reset_device", "none", reset_device(Cur, fail))

Call_get_acc_angles ==
    \E fail \in 0..1 : Return("get_acc_angles", "none", get_acc_angles(Cur, fail))

Call_get_accel_bandwith ==
    \E fail \in 0..1 : Return("get_accel_bandwith", "none", get_accel_bandwith(Cur, fail))

Call_set_accel_bw ==
    \E bw \in AccelBw, fail \in 0..2 :
        Return("set_accel_bw", bw, set_accel_bw(Cur, bw, fail))

Call_get_gyro_bandwith ==
    \E fail \in 0..2 : Return("get_gyro_bandwith", "none", get_gyro_bandwith(Cur, fail))

Call_set_gyro_bw ==
    \E bw \in GyroBw, fail \in 0..1 : Return("set_gyro_bw", bw, set_gyro_bw(Cur, bw, fail))

Call_get_acc == \E fail \in 0..1 : Return("get_acc", "none", get_acc(Cur, fail))

Call_get_gyro == \E fail \in 0..1 : Return("get_gyro", "none", get_gyro(Cur, fail))

Call_get_temp == \E fail \in 0..1 : Return("get_temp", "none", get_temp(Cur, fail))

Call_enable_fifo ==
    \E accel \in BOOLEAN, gyro \in BOOLEAN, fail \in 0..10 :
        Return("enable_fifo", <<accel, gyro>>, enable_fifo(Cur, accel, gyro, fail))

Call_write_byte ==
    \E reg \in FieldRegs, byte \in FieldData, fail \in 0..1 :
        Return("write_byte", [reg |-> reg, byte |-> byte], write_byte(Cur, reg, byte, fail))

Call_read_bits ==
    \E reg \in FieldRegs, f \in BitFields, fail \in 0..1 :
        Return("read_bits", [reg |-> reg, start_bit |-> f[1], length |-> f[2]],
               read_bits(Cur, reg, f[1], f[2], fail))

Call_read_byte ==
    \E reg \in FieldRegs, fail \in 0..1 :
        Return("read_byte", [reg |-> reg], read_byte(Cur, reg, fail))

\* Buffers of 1, 2 and 6 bytes at the start of the data registers.
Call_read_bytes ==
    \E n \in {1, 2, 6}, fail \in 0..1 :
        Return("read_bytes", [reg |-> ACC_REGX_H, len |-> n], read_bytes(Cur, ACC_REGX_H, n, fail))

ApiBytes == {0, 90, 165, 255}

ApiInit ==
    \E dev \in {new, new_with_addr_and_sens(105, "G4", "D2000")}, b \in ApiBytes :
        Start(dev, [r \in Regs |-> IF r = WHOAMI THEN 25 ELSE b])

ApiNext ==
    \/ FirstCall /\ Call_init
    \/ FirstCall /\ Call_setup_motion_detection
    \/ FirstCall /\ Call_get_motion_detected
    \/ FirstCall /\ Call_reset_device
    \/ FirstCall /\ Call_set_clock_source
    \/ FirstCall /\ Call_get_clock_source
    \/ FirstCall /\ Call_set_accel_range
    \/ FirstCall /\ Call_get_accel_range
    \/ FirstCall /\ Call_set_gyro_range
    \/ FirstCall /\ Call_get_gyro_range
    \/ FirstCall /\ Call_set_sleep_enabled
    \/ FirstCall /\ Call_get_sleep_enabled
    \/ FirstCall /\ Call_set_temp_enabled
    \/ FirstCall /\ Call_get_temp_enabled
    \/ FirstCall /\ Call_set_accel_x_self_test
    \/ FirstCall /\ Call_get_accel_x_self_test
    \/ FirstCall /\ Call_set_accel_y_self_test
    \/ FirstCall /\ Call_get_accel_y_self_test
    \/ FirstCall /\ Call_set_accel_z_self_test
    \/ FirstCall /\ Call_get_accel_z_self_test
    \/ FirstCall /\ Call_get_acc_angles
    \/ FirstCall /\ Call_get_accel_bandwith
    \/ FirstCall /\ Call_set_accel_bw
    \/ FirstCall /\ Call_get_gyro_bandwith
    \/ FirstCall /\ Call_set_gyro_bw
    \/ FirstCall /\ Call_get_acc
    \/ FirstCall /\ Call_get_gyro
    \/ FirstCall /\ Call_get_temp
    \/ FirstCall /\ Call_enable_fifo
    \/ FirstCall /\ Call_read_fifo
    \/ FirstCall /\ Call_read_fifo_si
    \/ FirstCall /\ Call_write_byte
    \/ FirstCall /\ Call_write_bit
    \/ FirstCall /\ Call_write_bits
    \/ FirstCall /\ Call_read_bits
    \/ FirstCall /\ Call_read_byte
    \/ FirstCall /\ Call_read_bytes

ApiSpec == ApiInit /\ [][ApiNext]_vars

----------------------------------------------------------------------------
(* Reset: a driver constructed with any ranges, in front of a device       *)
(* configured in any way, which obeys DEVICE_RESET or is a plain register  *)
(* file.  The caller resets the device and then calls a getter.            *)

ResetInit ==
    \E dev \in Constructed, image \in InitRegs, kind \in BOOLEAN : Boot(dev, image, kind)

ResetNext ==
    \/ FirstCall /\ Call_reset_device
    \/ After("reset_device") /\ Call_get_accel_range
    \/ After("reset_device") /\ Call_get_gyro_range
    \/ After("reset_device") /\ Call_get_sleep_enabled
    \/ After("reset_device") /\ Call_get_temp_enabled

ResetSpec == ResetInit /\ [][ResetNext]_vars

----------------------------------------------------------------------------
(* The accelerometer reading: a driver constructed in any of the ways, in   *)
(* front of a device whose X axis holds one of the raw counts below (Y and *)
(* Z hold 0) and whose ACCEL_CONFIG holds any of the bytes of InitBytes.    *)
(* The caller sets a range and then reads the acceleration.                 *)

\* High bytes of the X count: the four divisors 2048, 4096, 8192 and 16384
\* (0x08, 0x10, 0x20, 0x40 with a low byte of 0), 0, and a negative count.
RawHighs == {0, 8, 16, 32, 64, 192}

AccInit ==
    \E dev \in Constructed, high \in RawHighs, a \in InitBytes :
        Start(dev, [PowerOnRegs EXCEPT ![ACC_REGX_H] = high, ![ACCEL_CONFIG_ADDR] = a])

AccNext ==
    \/ FirstCall /\ Call_set_accel_range
    \/ After("set_accel_range") /\ Call_get_acc

AccSpec == AccInit /\ [][AccNext]_vars

----------------------------------------------------------------------------
(* The gyroscope bandwidth getter, on every content of CONFIG and of       *)
(* GYRO_CONFIG; the other registers are in their power-on state.  The      *)
(* caller makes one call.                                                   *)

GyroBwInit ==
    \E c \in Byte, g \in Byte :
        Start(new, [PowerOnRegs EXCEPT ![CONFIG_ADDR] = c, ![GYRO_CONFIG_ADDR] = g])

GyroBwNext == FirstCall /\ Call_get_gyro_bandwith

GyroBwSpec == GyroBwInit /\ [][GyroBwNext]_vars

----------------------------------------------------------------------------
(* The cache against the device: a driver constructed in any of the ways,  *)
(* in front of a device configured in any way, which obeys DEVICE_RESET or *)
(* is a plain register file.  The caller calls init and, as long as every  *)
(* call so far returned Ok, goes on with a call that configures the device.*)

Synced == call.op # "new" /\ ret.ok

CacheInit ==
    \E dev \in Constructed, image \in InitRegs, kind \in BOOLEAN : Boot(dev, image, kind)

CacheNext ==
    \/ FirstCall /\ Call_init
    \/ Synced /\ Call_set_accel_range
    \/ Synced /\ Call_set_gyro_range
    \/ Synced /\ Call_set_accel_bw
    \/ Synced /\ Call_setup_motion_detection
    \/ Synced /\ Call_set_accel_x_self_test
    \/ Synced /\ Call_set_accel_y_self_test
    \/ Synced /\ Call_set_accel_z_self_test
    \/ Synced /\ Call_set_clock_source
    \/ Synced /\ Call_set_sleep_enabled
    \/ Synced /\ Call_set_temp_enabled
    \/ Synced /\ Call_reset_device
    \/ Synced /\ Call_enable_fifo

CacheSpec == CacheInit /\ [][CacheNext]_vars

----------------------------------------------------------------------------
(* Wake-on-motion: a driver constructed in any of the ways, in front of a  *)
(* device configured in any way.  The caller sets motion detection up; the *)
(* device then sees motion on one axis, and the caller asks for it.        *)

Axes == {"X", "Y", "Z"}

\* The enable bit of an axis in INT_ENABLE and its status bit in INT_STATUS.
WomEnableBit(axis) ==
    CASE axis = "X" -> INT_ENABLE_WOM_X_INT_EN
      [] axis = "Y" -> INT_ENABLE_WOM_Y_INT_EN
      [] axis = "Z" -> INT_ENABLE_WOM_Z_INT_EN

WomStatusBit(axis) ==
    CASE axis = "X" -> INT_STATUS_WOM_X_INT
      [] axis = "Y" -> INT_STATUS_WOM_Y_INT
      [] axis = "Z" -> INT_STATUS_WOM_Z_INT

\* The device sees motion on an axis: when the wake-on-motion interrupt of that
\* axis is enabled in INT_ENABLE, the status bit of the axis is latched in
\* INT_STATUS.  `conv` keeps the event: the axis and whether it was latched.
Device_motion ==
    /\ call.op = "setup_motion_detection"
    /\ ret.ok
    /\ conv = <<>>
    /\ \E axis \in Axes :
          LET enabled == get_bit(regs[INT_ENABLE_ADDR], WomEnableBit(axis)) = 1
          IN /\ regs' = IF enabled
                        THEN [regs EXCEPT ![INT_STATUS_ADDR] = set_bit(@, WomStatusBit(axis), TRUE)]
                        ELSE regs
             /\ conv' = <<[fam |-> "device", dir |-> "motion", in |-> axis, out |-> enabled]>>
    /\ UNCHANGED <<por, slave_addr, acc_sensitivity, gyro_sensitivity, call, ret, bus, prev, nops>>

MotionInit == \E dev \in Constructed, image \in InitRegs : Start(dev, image)

MotionNext ==
    \/ FirstCall /\ Call_setup_motion_detection
    \/ Device_motion
    \/ (call.op = "setup_motion_detection" /\ Len(conv) = 1) /\ Call_get_motion_detected

MotionSpec == MotionInit /\ [][MotionNext]_vars

----------------------------------------------------------------------------
(* The accelerometer bandwidth, on every register content: the device is   *)
(* in its power-on state but for one of CONFIG, GYRO_CONFIG and             *)
(* ACCEL_CONFIG_2, which holds an arbitrary byte.  The caller sets the     *)
(* bandwidth and then asks for it.                                          *)

BwRegs == {CONFIG_ADDR, GYRO_CONFIG_ADDR, ACCEL_CONFIG_2_ADDR}

BwInit == \E r \in BwRegs, b \in Byte : Start(new, [PowerOnRegs EXCEPT ![r] = b])

BwNext ==
    \/ FirstCall /\ Call_set_accel_bw
    \/ After("set_accel_bw") /\ Call_get_accel_bandwith

BwSpec == BwInit /\ [][BwNext]_vars

----------------------------------------------------------------------------
(* The slave address: a driver constructed in each of the four ways, in    *)
(* front of a device whose registers but WHOAMI all hold the same byte.     *)
(* The caller makes one call of any public method.                          *)

AddrInit ==
    \E dev \in Constructed, b \in InitBytes :
        Start(dev, [r \in Regs |-> IF r = WHOAMI THEN 25 ELSE b])

AddrSpec == AddrInit /\ [][ApiNext]_vars

----------------------------------------------------------------------------
(* The bit helpers on their own, on every byte: a chain in `conv` starts   *)
(* with set_bits or set_bit applied to a byte and goes on with get_bits or *)
(* get_bit applied to what came out, at the same position.                 *)

Bits_set_bits ==
    /\ conv = <<>>
    /\ \E byte \in Byte, bit_start \in 0..7 : \E length \in 1..(8 - bit_start) :
          \E data \in 0..(Pow2(length) - 1) :
              conv' = <<[fam |-> "bits", dir |-> "set_bits",
                         in |-> <<byte, bit_start, length, data>>,
                         out |-> set_bits(byte, bit_start, length, data)]>>
    /\ UNCHANGED <<regs, por, slave_addr, acc_sensitivity, gyro_sensitivity,
                   call, ret, bus, prev, nops>>

Bits_get_bits ==
    /\ Len(conv) = 1
    /\ conv[1].dir = "set_bits"
    /\ conv' = Append(conv, [fam |-> "bits", dir |-> "get_bits",
                             in |-> <<conv[1].out, conv[1].in[2], conv[1].in[3]>>,
                             out |-> get_bits(conv[1].out, conv[1].in[2], conv[1].in[3])])
    /\ UNCHANGED <<regs, por, slave_addr, acc_sensitivity, gyro_sensitivity,
                   call, ret, bus, prev, nops>>

Bits_set_bit ==
    /\ conv = <<>>
    /\ \E byte \in Byte, n \in 0..7, value \in BOOLEAN :
          conv' = <<[fam |-> "bits", dir |-> "set_bit", in |-> <<byte, n, value>>,
                     out |-> set_bit(byte, n, value)]>>
    /\ UNCHANGED <<regs, por, slave_addr, acc_sensitivity, gyro_sensitivity,
                   call, ret, bus, prev, nops>>

Bits_get_bit ==
    /\ Len(conv) = 1
    /\ conv[1].dir = "set_bit"
    /\ conv' = Append(conv, [fam |-> "bits", dir |-> "get_bit",
                             in |-> <<conv[1].out, conv[1].in[2]>>,
                             out |-> get_bit(conv[1].out, conv[1].in[2])])
    /\ UNCHANGED <<regs, por, slave_addr, acc_sensitivity, gyro_sensitivity,
                   call, ret, bus, prev, nops>>

BitsInit == Start(new, PowerOnRegs)

BitsNext ==
    \/ Bits_set_bits
    \/ Bits_get_bits
    \/ Bits_set_bit
    \/ Bits_get_bit

BitsSpec == BitsInit /\ [][BitsNext]_vars

----------------------------------------------------------------------------
(* read_word_2c on its own, on every pair of bytes.                        *)

Word_read_word_2c ==
    /\ conv = <<>>
    /\ \E high \in Byte, low \in Byte :
          conv' = <<[fam |-> "word", dir |-> "read_word_2c", in |-> <<high, low>>,
                     out |-> read_word_2c(<<high, low>>)]>>
    /\ UNCHANGED <<regs, por, slave_addr, acc_sensitivity, gyro_sensitivity,
                   call, ret, bus, prev, nops>>

WordInit == Start(new, PowerOnRegs)

WordNext == Word_read_word_2c

WordSpec == WordInit /\ [][WordNext]_vars

----------------------------------------------------------------------------
(* Properties                                                               *)

\* The divisor a range stands for, by the range's bit pattern (device.rs: ACCEL_SENS, GYRO_SENS).
AccelDivisor(range) == ACCEL_SENS[AccelRange_as_u8(range) + 1]
GyroDivisor(range) == GYRO_SENS[GyroRange_as_u8(range) + 1]

\* C1: a call of set_accel_range(r) or set_gyro_range(r) that succeeds leaves the
\* cached sensitivity of that sensor at r's divisor; one that fails (at the bus
\* read or at the bus write) returns the bus error and leaves both cached
\* sensitivities as they were.
C1_RangeSetterCache ==
    [][ /\ call'.op = "set_accel_range" =>
              IF ret'.ok
              THEN acc_sensitivity' = AccelDivisor(call'.arg)
              ELSE /\ ret'.err = "I2c"
                   /\ acc_sensitivity' = acc_sensitivity
                   /\ gyro_sensitivity' = gyro_sensitivity
        /\ call'.op = "set_gyro_range" =>
              IF ret'.ok
              THEN gyro_sensitivity' = GyroDivisor(call'.arg)
              ELSE /\ ret'.err = "I2c"
                   /\ acc_sensitivity' = acc_sensitivity
                   /\ gyro_sensitivity' = gyro_sensitivity ]_vars

\* C1 witness: set_accel_range(r) has failed at its bus write (the second
\* transaction) while the cache holds the divisor of another range.
C1_Witness ==
    /\ call.op = "set_accel_range"
    /\ ~ret.ok
    /\ Len(bus) = 2
    /\ ~bus[2].ok
    /\ acc_sensitivity # AccelDivisor(call.arg)

\* The transactions of a complete init, in order: kind and register.
InitPlan ==
    << <<"write", PWR_MGMT_1_ADDR>>, <<"delay_ms", 0>>, <<"write_read", WHOAMI>>,
       <<"write_read", ACCEL_CONFIG_ADDR>>, <<"write", ACCEL_CONFIG_ADDR>>,
       <<"write_read", GYRO_CONFIG_ADDR>>, <<"write", GYRO_CONFIG_ADDR>> >>

\* C2: what init has issued is a prefix of: write 0x01 to PWR_MGMT_1, delay 100 ms,
\* read WHOAMI, read and write ACCEL_CONFIG with range bits 4..3 = 00 (G2), read and
\* write GYRO_CONFIG with range bits 4..3 = 00 (D250).  Only the last entry can be a
\* failed transaction, init then returns the bus error; init succeeds exactly when
\* the whole sequence went through; and every write that went through is still in
\* the register (nothing is undone).
C2_InitOrder ==
    call.op = "init" =>
        /\ Len(bus) \in 1..Len(InitPlan)
        /\ \A i \in 1..Len(bus) :
              /\ bus[i].kind = InitPlan[i][1]
              /\ bus[i].reg = InitPlan[i][2]
              /\ i < Len(bus) => bus[i].ok
              /\ (bus[i].kind = "write" /\ bus[i].ok) => regs[bus[i].reg] = bus[i].val
        /\ bus[1].val = 1
        /\ Len(bus) >= 2 => bus[2].val = 100
        /\ (Len(bus) >= 5 /\ bus[5].ok) =>
              /\ (bus[5].val \div 8) % 4 = 0
              /\ bus[5].val - ((bus[5].val \div 8) % 4) * 8
                    = bus[4].val[1] - ((bus[4].val[1] \div 8) % 4) * 8
        /\ (Len(bus) = 7 /\ bus[7].ok) =>
              /\ (bus[7].val \div 8) % 4 = 0
              /\ bus[7].val - ((bus[7].val \div 8) % 4) * 8
                    = bus[6].val[1] - ((bus[6].val[1] \div 8) % 4) * 8
        /\ ~bus[Len(bus)].ok => (~ret.ok /\ ret.err = "I2c")
        /\ ret.ok <=> (Len(bus) = Len(InitPlan) /\ bus[Len(bus)].ok)
        /\ (~ret.ok /\ bus[Len(bus)].ok) => (ret.err = "InvalidChipId" /\ Len(bus) = 3)

\* C2 witness: init has failed at the write of ACCEL_CONFIG; the wake write stays
\* in PWR_MGMT_1 and GYRO_CONFIG was never addressed.
C2_Witness ==
    /\ call.op = "init"
    /\ ~ret.ok
    /\ Len(bus) = 5
    /\ ~bus[5].ok
    /\ regs[PWR_MGMT_1_ADDR] = 1
    /\ regs[ACCEL_CONFIG_ADDR] = 255

C5_MotionAnyAxis ==
    (call.op = "get_motion_detected" /\ ret.ok) =>
        (ret.val <=> (bus[1].val[1] \div 32) # 0)

\* C6 (as stated): decoding the bit pattern of a GyroBw variant gives the variant back.
C6_GyroBwRoundTrip ==
    (Len(conv) = 2 /\ conv[1].dir = "encode" /\ conv[1].fam = "GyroBw") =>
        (conv[2].out.ok /\ conv[2].out.val = conv[1].in)

\* C7: decoding the bit pattern of a variant of CLKSEL, AccelRange, GyroRange or
\* AccelBw succeeds and gives the variant back.
C7_RoundTrip ==
    (Len(conv) = 2 /\ conv[1].dir = "encode"
        /\ conv[1].fam \in {"CLKSEL", "AccelRange", "GyroRange", "AccelBw"}) =>
        (conv[2].out.ok /\ conv[2].out.val = conv[1].in)

\* C7 witness: AccelBw::Hz1046 has been encoded (0b1000) and decoded again.
C7_Witness ==
    /\ Len(conv) = 2
    /\ conv[1] = [fam |-> "AccelBw", dir |-> "encode", in |-> "Hz1046", out |-> 8]
    /\ conv[2].in = 8
    /\ conv[2].out.ok

\* C8 (as stated): a byte that AccelBw::try_from or GyroBw::try_from accepts is
\* the bit pattern of the variant it returns.
C8_BwEncodeOfDecode ==
    (Len(conv) = 2 /\ conv[1].dir = "decode" /\ conv[1].fam \in {"AccelBw", "GyroBw"}) =>
        conv[2].out = conv[1].in

\* C9 (as stated): a byte that is the bit pattern of no variant of the bandwidth
\* enumeration is rejected with InvalidDiscriminant.
C9_BwRejectsUnknown ==
    (Len(conv) >= 1 /\ conv[1].dir = "decode" /\ conv[1].fam \in {"AccelBw", "GyroBw"}
        /\ \A v \in Variants(conv[1].fam) : Encode(conv[1].fam, v) # conv[1].in) =>
        (~conv[1].out.ok /\ conv[1].out.err = "InvalidDiscriminant")

\* C10: range and clock decode never fails; AccelRange::from maps 0..3 to G2, G4,
\* G8, G16 and any other byte to G2, GyroRange::from maps 0..3 to D250, D500,
\* D1000, D2000 and any other byte to D250, CLKSEL::from maps 0..7 onto its eight
\* variants in order and any other byte to AUTOPLL1.
C10_TotalDecode ==
    (Len(conv) >= 1 /\ conv[1].dir = "decode"
        /\ conv[1].fam \in {"CLKSEL", "AccelRange", "GyroRange"}) =>
        LET x == conv[1].in
            out == conv[1].out
        IN /\ out.ok
           /\ conv[1].fam = "AccelRange" =>
                 out.val = IF x <= 3 THEN <<"G2", "G4", "G8", "G16">>[x + 1] ELSE "G2"
           /\ conv[1].fam = "GyroRange" =>
                 out.val = IF x <= 3 THEN <<"D250", "D500", "D1000", "D2000">>[x + 1] ELSE "D250"
           /\ conv[1].fam = "CLKSEL" =>
                 out.val = IF x <= 7
                           THEN <<"OSCILL", "AUTOPLL1", "AUTOPLL2", "AUTOPLL3", "AUTOPLL4",
                                  "AUTOPLL5", "OSCILL6", "STOP">>[x + 1]
                           ELSE "AUTOPLL1"

\* C10 witness: CLKSEL::from has been given a byte above 7 and answered AUTOPLL1.
C10_Witness ==
    /\ Len(conv) >= 1
    /\ conv[1].fam = "CLKSEL"
    /\ conv[1].dir = "decode"
    /\ conv[1].in = 200
    /\ conv[1].out = DecOk("AUTOPLL1")

\* C11: on every content of PWR_MGMT_1 and for both values of e, a successful
\* set_temp_enabled(e) leaves TEMP_DIS (bit 3) at the inverse of e, and
\* get_temp_enabled called next returns e; get_temp_enabled returns true exactly
\* when TEMP_DIS of the register is 0.
C11_TempFlagInverted ==
    [][ /\ (call'.op = "set_temp_enabled" /\ ret'.ok) =>
              (regs'[PWR_MGMT_1_ADDR] \div 8) % 2 = (IF call'.arg THEN 0 ELSE 1)
        /\ (call.op = "set_temp_enabled" /\ ret.ok
               /\ call'.op = "get_temp_enabled" /\ ret'.ok) =>
              ret'.val = call.arg
        /\ (call'.op = "get_temp_enabled" /\ ret'.ok) =>
              (ret'.val <=> (regs[PWR_MGMT_1_ADDR] \div 8) % 2 = 0) ]_vars

\* C11 witness: on a register with every bit set, set_temp_enabled(true) has
\* cleared bit 3 (0xFF -> 0xF7) and get_temp_enabled has then returned true.
C11_Witness ==
    /\ prev = [op |-> "set_temp_enabled", ok |-> TRUE]
    /\ call.op = "get_temp_enabled"
    /\ ret.ok
    /\ ret.val = TRUE
    /\ regs[PWR_MGMT_1_ADDR] = 247

\* The getter of the field a setter writes.
GetterOf(op) ==
    CASE op = "set_clock_source" -> "get_clock_source"
      [] op = "set_accel_range" -> "get_accel_range"
      [] op = "set_gyro_range" -> "get_gyro_range"
      [] op = "set_sleep_enabled" -> "get_sleep_enabled"
      [] op = "set_accel_x_self_test" -> "get_accel_x_self_test"
      [] op = "set_accel_y_self_test" -> "get_accel_y_self_test"
      [] op = "set_accel_z_self_test" -> "get_accel_z_self_test"
      [] OTHER -> "none"

\* C12: for the clock source, the accelerometer range, the gyroscope range, the
\* sleep flag and the accelerometer self-test flags of X, Y and Z, a successful
\* set_*(v) followed directly by a successful get_* of the same field returns v,
\* whatever the register held before.
C12_SetThenGet ==
    [][ (ret.ok /\ ret'.ok /\ GetterOf(call.op) # "none" /\ call'.op = GetterOf(call.op)) =>
            ret'.val = call.arg ]_vars

\* C12 witness: on a PWR_MGMT_1 with every bit set, set_clock_source(OSCILL) has
\* cleared bits 2..0 and get_clock_source has then returned OSCILL.
C12_Witness ==
    /\ prev = [op |-> "set_clock_source", ok |-> TRUE]
    /\ call.op = "get_clock_source"
    /\ ret.ok
    /\ ret.val = "OSCILL"
    /\ regs[PWR_MGMT_1_ADDR] = 248

\* A byte with the bits lo..lo+len-1 cleared.
Without(byte, lo, len) == byte - ((byte \div Pow2(lo)) % Pow2(len)) * Pow2(lo)

\* The registers other than r are as they were before the call.
OthersKept(r) == \A q \in Regs \ {r} : regs'[q] = regs[q]

FieldLow(bit_start, length) == IF bit_start >= length THEN bit_start - length + 1 ELSE 0

\* C14: for every byte, every start and len with start + len <= 8 and every
\* v < 2^len, get_bits of what set_bits gave, at the same start and len, is v, and
\* the byte is unchanged outside the len bits of the field (the bits from start
\* downwards, as the register catalogue counts them); for every n in 0..7,
\* get_bit of what set_bit gave is the value set (1 for true, 0 for false), and
\* the byte is unchanged outside bit n.
C14_BitRoundTrip ==
    /\ (Len(conv) = 2 /\ conv[1].dir = "set_bits") =>
          LET byte == conv[1].in[1]
              bit_start == conv[1].in[2]
              length == conv[1].in[3]
          IN /\ conv[2].out = conv[1].in[4]
             /\ conv[1].out \in Byte
             /\ Without(conv[1].out, FieldLow(bit_start, length), length)
                   = Without(byte, FieldLow(bit_start, length), length)
    /\ (Len(conv) = 2 /\ conv[1].dir = "set_bit") =>
          /\ conv[2].out = (IF conv[1].in[3] THEN 1 ELSE 0)
          /\ conv[1].out \in Byte
          /\ Without(conv[1].out, conv[1].in[2], 1) = Without(conv[1].in[1], conv[1].in[2], 1)

\* C14 witness: set_bits(0xFF, 4, 2, 1) has given 0xEF (bits 4..3 = 01) and
\* get_bits(0xEF, 4, 2) has given 1 back.
C14_Witness ==
    /\ Len(conv) = 2
    /\ conv[1].dir = "set_bits"
    /\ conv[1].in = <<255, 4, 2, 1>>
    /\ conv[1].out = 239
    /\ conv[2].out = 1

\* C15: read_word_2c of (high, low) is the signed 16-bit two's-complement reading
\* of high * 256 + low: the one number in -32768..32767 that differs from
\* high * 256 + low by a multiple of 65536, negative exactly when bit 7 of high is
\* set; (0x80, 0x00) gives -32768, (0x7F, 0xFF) gives 32767, (0, 0) gives 0.
C15_WordTwosComplement ==
    (Len(conv) = 1 /\ conv[1].dir = "read_word_2c") =>
        LET high == conv[1].in[1]
            low == conv[1].in[2]
            out == conv[1].out
        IN /\ out \in -32768..32767
           /\ (out - (high * 256 + low)) % 65536 = 0
           /\ out < 0 <=> high >= 128
           /\ (high = 128 /\ low = 0) => out = -32768
           /\ (high = 127 /\ low = 255) => out = 32767
           /\ (high = 0 /\ low = 0) => out = 0

\* C15 witness: read_word_2c has been given (0x80, 0x00), the word at which the
\* sign changes, and has answered -32768.
C15_Witness ==
    /\ Len(conv) = 1
    /\ conv[1].dir = "read_word_2c"
    /\ conv[1].in = <<128, 0>>
    /\ conv[1].out = -32768

\* The signed 16-bit word at bytes i, i+1 of a buffer.
WordAt(buf, i) ==
    LET w == buf[i] * 256 + buf[i + 1] IN IF w < 32768 THEN w ELSE w - 65536

\* The frame read_fifo decodes from a buffer: acceleration, rotation, (temperature, 0, 0),
\* with the acceleration and the rotation times the constants accBy and gyroBy.
FrameOf(buf, accBy, gyroBy) ==
    << [i \in 1..3 |-> Scaled(10 * WordAt(buf, 2 * i - 1), acc_sensitivity, accBy)],
       [i \in 1..3 |-> Scaled(10 * WordAt(buf, 2 * i + 7), gyro_sensitivity, gyroBy)],
       <<Scaled(10 * WordAt(buf, 7) + 81700, 3268, "one"), Scaled(0, 1, "one"),
         Scaled(0, 1, "one")>> >>

\* C16: read_fifo and read_fifo_si issue one transaction, the 14-byte read of
\* FIFO_R_W.  When it goes through, the call fails with NofFifoData exactly when
\* the first byte read is 0xFF, and is Ok with the decoded frame otherwise:
\* read_fifo with the words over the sensitivities, read_fifo_si with the same
\* frame, acceleration times GRAVITY and rotation times PI_180.
C16_FifoEmptySentinel ==
    (call.op \in {"read_fifo", "read_fifo_si"}) =>
        /\ Len(bus) = 1
        /\ bus[1].kind = "write_read"
        /\ bus[1].reg = FIFO_R_W
        /\ Len(bus[1].val) = 14
        /\ bus[1].ok =>
              /\ (~ret.ok /\ ret.err = "NofFifoData") <=> bus[1].val[1] = 255
              /\ bus[1].val[1] # 255 =>
                    /\ ret.ok
                    /\ call.op = "read_fifo" => ret.val = FrameOf(bus[1].val, "one", "one")
                    /\ call.op = "read_fifo_si" =>
                          ret.val = FrameOf(bus[1].val, "GRAVITY", "PI_180")

\* C16 witness: read_fifo_si has failed with NofFifoData on a frame whose first
\* byte is 0xFF and whose other bytes are not, after the one read.
C16_Witness ==
    /\ call.op = "read_fifo_si"
    /\ ~ret.ok
    /\ ret.err = "NofFifoData"
    /\ Len(bus) = 1
    /\ bus[1].val[1] = 255
    /\ bus[1].val[2] = 52

\* C18: a call of write_bit or write_bits issues one read of the register and,
\* when the read goes through, one write to the same register and nothing else;
\* the byte written is the byte read with bit bit_n at the value given, or with
\* the field at the low `length` bits of the data given, and every other bit as
\* read.  When the read fails no write is issued.
C18_ReadModifyWrite ==
    (call.op \in {"write_bit", "write_bits"}) =>
        /\ Len(bus) >= 1
        /\ bus[1].kind = "write_read"
        /\ bus[1].reg = call.arg.reg
        /\ Len(bus[1].val) = 1
        /\ ~bus[1].ok => (Len(bus) = 1 /\ ~ret.ok)
        /\ bus[1].ok =>
              /\ Len(bus) = 2
              /\ bus[2].kind = "write"
              /\ bus[2].reg = call.arg.reg
              /\ ret.ok <=> bus[2].ok
              /\ call.op = "write_bit" =>
                    /\ (bus[2].val \div Pow2(call.arg.bit_n)) % 2
                          = (IF call.arg.enable THEN 1 ELSE 0)
                    /\ Without(bus[2].val, call.arg.bit_n, 1)
                          = Without(bus[1].val[1], call.arg.bit_n, 1)
              /\ call.op = "write_bits" =>
                    LET lo == FieldLow(call.arg.start_bit, call.arg.length)
                    IN /\ (bus[2].val \div Pow2(lo)) % Pow2(call.arg.length)
                             = call.arg.data % Pow2(call.arg.length)
                       /\ Without(bus[2].val, lo, call.arg.length)
                             = Without(bus[1].val[1], lo, call.arg.length)

\* C18 witness: write_bits(ACCEL_CONFIG, 4, 2, 5) on a register holding 0xF7 has
\* read 0xF7 and written 0xEF (bits 4..3 = 01, the rest as read).
C18_Witness ==
    /\ call.op = "write_bits"
    /\ call.arg = [reg |-> ACCEL_CONFIG_ADDR, start_bit |-> 4, length |-> 2, data |-> 5]
    /\ ret.ok
    /\ bus[1].val = <<247>>
    /\ bus[2].val = 239

\* The most bus transactions a call of a public method issues.
BusPlan(op) ==
    CASE op = "init" -> 6
      [] op = "setup_motion_detection" -> 7
      [] op = "enable_fifo" -> 10
      [] op \in {"get_gyro_bandwith", "set_accel_bw", "write_bit", "write_bits", "reset_device",
                 "set_clock_source", "set_accel_range", "set_gyro_range", "set_sleep_enabled",
                 "set_temp_enabled", "set_accel_x_self_test", "set_accel_y_self_test",
                 "set_accel_z_self_test"} -> 2
      [] op = "set_gyro_bw" -> 0
      [] OTHER -> 1

\* C17: in a call of any public method the first bus transaction that fails is
\* the last thing the call does: nothing is issued after it (no retry, no other
\* transaction, no delay) and the call returns the bus error; a call returns
\* the bus error in no other case, and never issues more transactions than its
\* straight-line sequence has.
C17_FailFast ==
    (call.op # "new") =>
        /\ \A i \in 1..Len(bus) : ~bus[i].ok => i = Len(bus)
        /\ (Len(bus) >= 1 /\ ~bus[Len(bus)].ok) => (~ret.ok /\ ret.err = "I2c")
        /\ ret.err = "I2c" => (Len(bus) >= 1 /\ ~bus[Len(bus)].ok)
        /\ BusCount(bus) <= BusPlan(call.op)

\* C17 witness: enable_fifo has returned the bus error at its seventh
\* transaction, the read of USER_CTRL for the second of its three bits; the six
\* transactions before it went through.
C17_Witness ==
    /\ call.op = "enable_fifo"
    /\ ~ret.ok
    /\ ret.err = "I2c"
    /\ Len(bus) = 7
    /\ ~bus[7].ok
    /\ bus[7].kind = "write_read"
    /\ bus[7].reg = USER_CTRL

\* The writes of setup_motion_detection, in order: register and byte.
MotionPlan ==
    << <<PWR_MGMT_1_ADDR, 0>>, <<INT_PIN_CFG_ADDR, 32>>, <<ACCEL_CONFIG_ADDR, 1>>,
       <<MOT_THR, 10>>, <<MOT_DUR, 40>>, <<105, 21>>, <<INT_ENABLE_ADDR, 64>> >>

\* C19: what setup_motion_detection issues is a prefix of its seven writes, of
\* which only the last can have failed.  When the k-th write fails the call
\* returns the bus error, the registers of the writes 1..k-1 hold the bytes
\* written, and every other register, those of the writes k.. included, holds what
\* it held before the call: the later writes are not issued and nothing is
\* written back.  The call succeeds exactly when all seven writes went through.
C19_MotionSetupPartial ==
    [][ (call'.op = "setup_motion_detection") =>
            LET n == Len(bus')
                done == {i \in 1..n : bus'[i].ok}
            IN /\ n \in 1..Len(MotionPlan)
               /\ \A i \in 1..n :
                     /\ bus'[i].kind = "write"
                     /\ bus'[i].reg = MotionPlan[i][1]
                     /\ bus'[i].val = MotionPlan[i][2]
                     /\ i < n => bus'[i].ok
               /\ ~bus'[n].ok => (~ret'.ok /\ ret'.err = "I2c")
               /\ ret'.ok <=> (n = Len(MotionPlan) /\ bus'[n].ok)
               /\ \A i \in done : regs'[MotionPlan[i][1]] = MotionPlan[i][2]
               /\ \A r \in Regs \ {MotionPlan[i][1] : i \in done} : regs'[r] = regs[r] ]_vars

\* C19 witness: the fourth write (MOT_THR) has failed on a device whose registers
\* all held 0xFF: PWR_MGMT_1, INT_PIN_CFG and ACCEL_CONFIG hold the new bytes,
\* MOT_THR, MOT_DUR and INT_ENABLE still hold 0xFF.
C19_Witness ==
    /\ call.op = "setup_motion_detection"
    /\ ~ret.ok
    /\ Len(bus) = 4
    /\ ~bus[4].ok
    /\ regs[PWR_MGMT_1_ADDR] = 0
    /\ regs[INT_PIN_CFG_ADDR] = 32
    /\ regs[ACCEL_CONFIG_ADDR] = 1
    /\ regs[MOT_THR] = 255
    /\ regs[MOT_DUR] = 255
    /\ regs[INT_ENABLE_ADDR] = 255

\* C20: reset_device reads PWR_MGMT_1, writes the byte back with DEVICE_RESET
\* (bit 7) set and every other bit as read, then waits 100 ms; a failure of the
\* read or of the write ends it with the bus error and without the wait.  On a
\* device that obeys the reset by going back to its power-on contents, the
\* getter called after a successful reset_device returns G2 (get_accel_range),
\* D250 (get_gyro_range), true (get_sleep_enabled), true (get_temp_enabled),
\* whatever the registers held and whatever ranges the driver was constructed with.
C20_ResetDefaults ==
    [][ /\ (call'.op = "reset_device") =>
              /\ Len(bus') \in 1..3
              /\ bus'[1].kind = "write_read" /\ bus'[1].reg = PWR_MGMT_1_ADDR
              /\ bus'[1].ok => /\ Len(bus') >= 2
                               /\ bus'[2].kind = "write"
                               /\ bus'[2].reg = PWR_MGMT_1_ADDR
                               /\ bus'[2].val = 128 + (regs[PWR_MGMT_1_ADDR] % 128)
              /\ ret'.ok <=> Len(bus') = 3
              /\ ret'.ok => /\ bus'[2].ok
                            /\ bus'[3].kind = "delay_ms"
                            /\ bus'[3].val = 100
              /\ ~ret'.ok => (ret'.err = "I2c" /\ ~bus'[Len(bus')].ok)
        /\ (call.op = "reset_device" /\ ret.ok /\ por /\ ret'.ok) =>
              /\ call'.op = "get_accel_range" => ret'.val = "G2"
              /\ call'.op = "get_gyro_range" => ret'.val = "D250"
              /\ call'.op = "get_sleep_enabled" => ret'.val = TRUE
              /\ call'.op = "get_temp_enabled" => ret'.val = TRUE ]_vars

\* C20 witness: get_sleep_enabled has returned true after a successful
\* reset_device, on a device that obeys the reset, with a driver constructed for
\* 16 g and 1000 degrees/s.
C20_Witness ==
    /\ prev = [op |-> "reset_device", ok |-> TRUE]
    /\ por
    /\ call.op = "get_sleep_enabled"
    /\ ret.ok
    /\ ret.val = TRUE
    /\ regs[PWR_MGMT_1_ADDR] = 64
    /\ acc_sensitivity = AccelDivisor("G16")
    /\ gyro_sensitivity = GyroDivisor("D1000")

\* C21: set_gyro_bw is a no-op for every GyroBw value: it issues no bus read and
\* no bus write (and no delay), returns Ok, and leaves every device register and
\* both cached sensitivities as they were.
C21_GyroBwNoOp ==
    [][ (call'.op = "set_gyro_bw") =>
            /\ call'.arg \in GyroBw
            /\ bus' = <<>>
            /\ ret'.ok
            /\ regs' = regs
            /\ acc_sensitivity' = acc_sensitivity
            /\ gyro_sensitivity' = gyro_sensitivity ]_vars

\* C21 witness: set_gyro_bw(Hz176) has returned Ok on a driver constructed for
\* 4 g and 2000 degrees/s, in front of registers holding 0xA5: nothing was issued.
C21_Witness ==
    /\ call.op = "set_gyro_bw"
    /\ call.arg = "Hz176"
    /\ ret.ok
    /\ bus = <<>>
    /\ regs[ACCEL_CONFIG_2_ADDR] = 165
    /\ regs[GYRO_CONFIG_ADDR] = 165
    /\ acc_sensitivity = AccelDivisor("G4")
    /\ gyro_sensitivity = GyroDivisor("D2000")

\* C22: the cached accelerometer sensitivity changes in set_accel_range and in
\* init only, the cached gyroscope sensitivity in set_gyro_range and in init
\* only, and each of them only when the call gets as far as Ok of that range
\* setter; every other call, Ok or failed, leaves both as they were.  No call
\* changes the slave address.
C22_CacheFrame ==
    [][ /\ slave_addr' = slave_addr
        /\ acc_sensitivity' # acc_sensitivity =>
              /\ call'.op \in {"set_accel_range", "init"}
              /\ call'.op = "set_accel_range" => ret'.ok
              /\ call'.op = "init" => (Len(bus') >= 5 /\ bus'[5].ok)
        /\ gyro_sensitivity' # gyro_sensitivity =>
              /\ call'.op \in {"set_gyro_range", "init"}
              /\ ret'.ok ]_vars

\* C22 witness: on a driver constructed at address 0x69 for 4 g and 2000
\* degrees/s, reset_device has succeeded; the driver still holds that address
\* and the divisors of those ranges.
C22_Witness ==
    /\ call.op = "reset_device"
    /\ ret.ok
    /\ Len(bus) = 3
    /\ slave_addr = 105
    /\ acc_sensitivity = AccelDivisor("G4")
    /\ gyro_sensitivity = GyroDivisor("D2000")

\* C23: get_acc called after a successful set_accel_range(r) issues the one read
\* of the six data bytes (ACCEL_CONFIG is not read) and returns each raw count
\* over the divisor of r: 16384, 8192, 4096, 2048 for G2, G4, G8, G16.  A raw
\* triplet (divisor of r, 0, 0) comes out as (1, 0, 0) g.
C23_AccUsesCachedDivisor ==
    [][ (call.op = "set_accel_range" /\ ret.ok /\ call'.op = "get_acc" /\ ret'.ok) =>
            LET div == CASE call.arg = "G2" -> 16384
                         [] call.arg = "G4" -> 8192
                         [] call.arg = "G8" -> 4096
                         [] call.arg = "G16" -> 2048
                raw == [i \in 1..3 |-> WordAt(bus'[1].val, 2 * i - 1)]
            IN /\ Len(bus') = 1
               /\ bus'[1].reg = ACC_REGX_H
               /\ \A i \in 1..3 : ret'.val[i] = Scaled(10 * raw[i], 10 * div, "one")
               /\ raw = <<div, 0, 0>> =>
                     /\ ret'.val[1].num = ret'.val[1].den
                     /\ ret'.val[2].num = 0
                     /\ ret'.val[3].num = 0 ]_vars

\* C23 witness: after set_accel_range(G4) on a driver constructed for 16 g,
\* get_acc has read the raw triplet (8192, 0, 0) and returned 8192 / 8192 for X.
C23_Witness ==
    /\ prev = [op |-> "set_accel_range", ok |-> TRUE]
    /\ call.op = "get_acc"
    /\ ret.ok
    /\ bus[1].val = <<32, 0, 0, 0, 0, 0>>
    /\ acc_sensitivity = 81920
    /\ gyro_sensitivity = GyroDivisor("D1000")
    /\ ret.val[1] = Scaled(81920, 81920, "one")
    /\ ret.val[2].num = 0

\* C24 (as stated): get_gyro_bandwith reads CONFIG and then GYRO_CONFIG, and with
\* dlpf the bits 2..0 of the first byte and fchoice the bits 1..0 of the second
\* it returns the GyroBw variant whose bit pattern is dlpf | (fchoice << 3), or
\* InvalidDiscriminant when no variant has that pattern.
C24_GyroBwCombined ==
    (call.op = "get_gyro_bandwith" /\ Len(bus) = 2 /\ bus[2].ok) =>
        LET dlpf == bus[1].val[1] % 8
            fchoice == bus[2].val[1] % 4
            combined == dlpf + 8 * fchoice
        IN /\ bus[1].reg = CONFIG_ADDR
           /\ bus[2].reg = GYRO_CONFIG_ADDR
           /\ IF \E v \in GyroBw : GyroBw_bits(v) = combined
              THEN ret.ok /\ GyroBw_bits(ret.val) = combined
              ELSE ~ret.ok /\ ret.err = "InvalidDiscriminant"

\* C25 (as stated): after a successful init and any number of successful calls
\* of the configuring methods, the cached accelerometer sensitivity is the
\* divisor of the range get_accel_range reports and the cached gyroscope
\* sensitivity the divisor of the range get_gyro_range reports.
C25_CacheAgrees ==
    (call.op # "new" /\ ret.ok) =>
        /\ acc_sensitivity = AccelDivisor(get_accel_range(Cur, 0).val)
        /\ gyro_sensitivity = GyroDivisor(get_gyro_range(Cur, 0).val)

\* C26 (as stated): after a successful setup_motion_detection, motion on an axis
\* whose wake-on-motion interrupt is enabled in INT_ENABLE, latched by the device
\* in INT_STATUS, makes the next get_motion_detected return true.
C26_MotionSeen ==
    (call.op = "get_motion_detected" /\ ret.ok /\ prev = [op |-> "setup_motion_detection", ok |-> TRUE]
        /\ Len(conv) = 1 /\ conv[1].dir = "motion" /\ conv[1].out) =>
        ret.val = TRUE

\* C27 (as stated): a successful set_accel_bw(bw) followed directly by
\* get_accel_bandwith returns bw, whatever the registers held.
C27_AccelBwSetThenGet ==
    [][ (call.op = "set_accel_bw" /\ ret.ok /\ call'.op = "get_accel_bandwith"
            /\ Len(bus') = 1 /\ bus'[1].ok) =>
            (ret'.ok /\ ret'.val = call.arg) ]_vars

FifoPlan(accel, gyro) ==
    << <<FIFO_EN, 3, accel>>, <<FIFO_EN, 4, gyro>>, <<USER_CTRL, 0, TRUE>>,
       <<USER_CTRL, 2, TRUE>>, <<USER_CTRL, 6, TRUE>> >>

\* C29: a successful enable_fifo(accel, gyro) has issued ten transactions, five
\* times a read of a register followed by a write to it of the byte read with
\* one bit changed: FIFO_EN bit 3 at accel, FIFO_EN bit 4 at gyro, then USER_CTRL
\* bit 0, bit 2 and bit 6 at 1.  The write that sets bit 6 of USER_CTRL is the
\* last transaction.  FIFO_EN ends as it was but for bits 3 and 4, USER_CTRL as
\* it was but for bits 0, 2 and 6, and no other register changes.
C29_EnableFifoOrder ==
    [][ (call'.op = "enable_fifo" /\ ret'.ok) =>
            LET plan == FifoPlan(call'.arg[1], call'.arg[2])
                b == bus'
            IN /\ Len(b) = 10
               /\ \A k \in 1..5 :
                     /\ b[2 * k - 1].kind = "write_read"
                     /\ b[2 * k - 1].reg = plan[k][1]
                     /\ b[2 * k].kind = "write"
                     /\ b[2 * k].reg = plan[k][1]
                     /\ (b[2 * k].val \div Pow2(plan[k][2])) % 2 = (IF plan[k][3] THEN 1 ELSE 0)
                     /\ Without(b[2 * k].val, plan[k][2], 1)
                           = Without(b[2 * k - 1].val[1], plan[k][2], 1)
               /\ b[10].reg = USER_CTRL
               /\ (b[10].val \div 64) % 2 = 1
               /\ Without(regs'[FIFO_EN], 3, 2) = Without(regs[FIFO_EN], 3, 2)
               /\ (regs'[FIFO_EN] \div 8) % 4
                     = (IF call'.arg[1] THEN 1 ELSE 0) + (IF call'.arg[2] THEN 2 ELSE 0)
               /\ regs'[USER_CTRL] = BitOr(regs[USER_CTRL], 69)
               /\ \A q \in Regs \ {FIFO_EN, USER_CTRL} : regs'[q] = regs[q] ]_vars

\* C29 witness: enable_fifo(true, false) has succeeded on a device whose
\* registers all held 0x5A: FIFO_EN holds 0x4A (bit 3 set, bit 4 cleared),
\* USER_CTRL 0x5F (bits 0 and 2 set, bit 6 as it was), and the last transaction
\* is the write of 0x5F to USER_CTRL.
C29_Witness ==
    /\ call.op = "enable_fifo"
    /\ call.arg = <<TRUE, FALSE>>
    /\ ret.ok
    /\ regs[FIFO_EN] = 74
    /\ regs[USER_CTRL] = 95
    /\ bus[10] = Tx("write", USER_CTRL, 95, TRUE)
    /\ bus[9].val = <<95>>

\* The one read a sensor read issues: start register and number of bytes.
SensorRead(op) ==
    CASE op = "get_acc" -> <<59, 6>>
      [] op = "get_gyro" -> <<67, 6>>
      [] op = "get_temp" -> <<65, 2>>
      [] op = "read_fifo" -> <<FIFO_R_W, 14>>

\* C30: a call of get_acc, get_gyro, get_temp or read_fifo, Ok or failed, issues
\* one bus transaction, a read: 6 bytes from 0x3B, 6 bytes from 0x43, 2 bytes
\* from 0x41, 14 bytes from the FIFO register.  It writes nothing: no register
\* changes, and the cached sensitivities are as before.
C30_SensorReadOnce ==
    [][ (call'.op \in {"get_acc", "get_gyro", "get_temp", "read_fifo"}) =>
            /\ Len(bus') = 1
            /\ bus'[1].kind = "write_read"
            /\ bus'[1].reg = SensorRead(call'.op)[1]
            /\ Len(bus'[1].val) = SensorRead(call'.op)[2]
            /\ ret'.ok <=> (bus'[1].ok /\ ~(call'.op = "read_fifo" /\ bus'[1].val[1] = 255))
            /\ regs' = regs
            /\ acc_sensitivity' = acc_sensitivity
            /\ gyro_sensitivity' = gyro_sensitivity ]_vars

\* C30 witness: get_temp has succeeded with one read of the two bytes 0xA5, 0xA5
\* at 0x41, on a driver constructed for 4 g and 2000 degrees/s.
C30_Witness ==
    /\ call.op = "get_temp"
    /\ ret.ok
    /\ bus = <<Tx("write_read", 65, <<165, 165>>, TRUE)>>
    /\ ret.val = Celsius(-23131)
    /\ acc_sensitivity = AccelDivisor("G4")
    /\ gyro_sensitivity = GyroDivisor("D2000")

\* C31: new and new_with_sens give a driver at 0x68, new_with_addr and
\* new_with_addr_and_sens one at the address given, for every address; a driver
\* just constructed has issued no bus transaction; no call changes the slave
\* address, and every bus transaction a call issues, read or write, gone
\* through or failed, is addressed to it.
C31_BusAddress ==
    /\ new.slave_addr = 104
    /\ \A a \in AccelRange, g \in GyroRange : new_with_sens(a, g).slave_addr = 104
    /\ \A addr \in Byte : new_with_addr(addr).slave_addr = addr
    /\ \A addr \in Byte, a \in AccelRange, g \in GyroRange :
          new_with_addr_and_sens(addr, a, g).slave_addr = addr
    /\ bus = <<>>
    /\ [][ /\ slave_addr' = slave_addr
           /\ \A i \in 1..Len(bus') :
                 bus'[i].kind \in {"write", "write_read"} => bus'[i].addr = slave_addr ]_vars

\* C31 witness: on a driver constructed at 0x69, enable_fifo has issued its ten
\* transactions, reads and writes, each addressed to 0x69.
C31_Witness ==
    /\ call.op = "enable_fifo"
    /\ ret.ok
    /\ slave_addr = 105
    /\ Len(bus) = 10
    /\ \A i \in 1..10 : bus[i].addr = 105
    /\ bus[1].kind = "write_read"
    /\ bus[2].kind = "write"

====
